---- MODULE Spec2Model ----
(***************************************************************************)
(* Verification model of lpossenti/haima, src/include/problemHT_prec.cpp:  *)
(*   - problemHT::build_vessel_boundary : the scan of the 1D mesh that     *)
(*     builds the boundary-condition list BCv_HT and the junction list     *)
(*     Jv_HT (specification SpecTopo);                                     *)
(*   - problemHT::solve_fixpoint : the outer fixed-point iteration         *)
(*     coupling flow, vessel compliance, viscosity and hematocrit          *)
(*     (specification SpecFix).                                            *)
(* Vectors of reals are represented by small integer vectors; ratios are   *)
(* compared by cross-multiplication so that no rounding is introduced.     *)
(***************************************************************************)
EXTENDS Integers, Sequences, FiniteSets, TLC

(***************************************************************************)
(* Bounds of the model.                                                    *)
(***************************************************************************)
\* largest number of convexes (1D elements) of a mesh
MaxCv == 4
\* how many region ids above the branch regions may pre-exist in the mesh
ExtraRg == 1
\* largest configured maximum number of outer iterations
MaxIt == 2
\* pressures take the values 0..MaxP
MaxP == 2
\* hematocrit takes the values 0..MaxH
MaxH == 1
\* largest element size and largest absolute velocity of a dof
MaxSize == 2
MaxVel == 2
\* largest radius of a vessel data dof, in unit lengths
MaxRad == 3
\* denominator of the relaxation factors
MaxAlfa == 4
\* largest number of hematocrit dofs of a branch
MaxDof == 2

VARIABLES
  \* ---- state of build_vessel_boundary --------------------------------
  pts,          \* meshh.ind_points_of_convex: cv -> <<local point 0, local point 1>>
  reg,          \* branch region containing each convex
  nb_branches,  \* number of branch regions (regions 0..nb_branches-1)
  regions,      \* ids r with meshh.has_region(r)
  BCv_HT,       \* list of boundary-condition nodes
  Jv_HT,        \* list of junction nodes
  junctions,    \* dal::bit_vector junctions
  extrema,      \* dal::bit_vector extrema
  nb_extrema,
  nb_junctions,
  fer,          \* first empty region
  cv,           \* convex being visited
  tpc,          \* position of the scan
  ub            \* an access outside BCv_HT has happened (undefined behaviour)

tvars == <<pts, reg, nb_branches, regions, BCv_HT, Jv_HT, junctions, extrema,
           nb_extrema, nb_junctions, fer, cv, tpc, ub>>

VARIABLES
  \* ---- configuration read by solve_fixpoint ---------------------------
  Max_it,          \* descr.Max_it
  compliant,       \* COMPLIANT_VESSELS()
  thick,           \* param.thick(): wall thickness
  alfa,            \* descrHT.underH, as <<numerator, denominator>>
  \* ---- state of solve_fixpoint ----------------------------------------
  UM,              \* flow solution of the problem object
  U_old, U_new,    \* previous and new flow iterate
  UM_HT,           \* hematocrit solution of the problem object
  H_old, H_new,    \* previous and new hematocrit iterate
  iteration,
  RK,              \* continuation flag
  resSol, resCM, resH,
  p_int, p_ext,    \* pressures handed to vessel_conductivity_vec
  Rv, CSarea, CSper,   \* param.R(), param.CSarea(), param.CSper()
  r_und,           \* undeformed radius captured before the loop
  resistance_rvar, \* conductance written by vessel_conductivity_vec
  Mbar,            \* exchange auxiliary matrix
  MU,              \* viscosity
  AM,              \* flow system: the coefficients it was assembled from
  Bvv,             \* exchange matrices Bvt and Bvv (one coefficient)
  TFR,             \* total flow rate
  AM_HT,           \* hematocrit system: the data it was assembled from
  cond,            \* condition estimate given by the last SuperLU solve
  msg,             \* the non-convergence message has been printed
  ret,             \* value returned by solve_fixpoint
  spc              \* position in solve_fixpoint

svars == <<Max_it, compliant, thick, alfa, UM, U_old, U_new, UM_HT, H_old,
           H_new, iteration, RK, resSol, resCM, resH, p_int, p_ext, Rv, CSarea,
           CSper, r_und, resistance_rvar, Mbar, MU, AM, Bvv, TFR, AM_HT, cond,
           msg, ret, spc>>

(***************************************************************************)
(* State of assembly_mat: the artificial diffusivity computation and the   *)
(* loop that writes the blocks of the branches.                            *)
(***************************************************************************)
VARIABLES
  convex_size,     \* meshv.convex_area_estimate(k, 2) of each convex
  Uvi,             \* vessel velocity dofs of each branch
  Theta,           \* PARAM "THETA"
  ib,              \* branch index i of the loop
  max_size,
  max_product,
  Diffusivity,     \* as <<numerator, denominator>>
  mf_Hi,           \* mf_Hi[i].nb_dof(): hematocrit dofs of each branch
  shift_H,         \* first hematocrit dof of the branch of the loop
  dpc              \* position in the computation

dvars == <<convex_size, Uvi, Theta, ib, max_size, max_product, Diffusivity,
           mf_Hi, shift_H, dpc>>

(***************************************************************************)
(* Parameters: the viscosity selector, and the arrays of param3d1d::build. *)
(***************************************************************************)
VARIABLES
  visco_v,         \* paramHT.visco_type()
  H_const,         \* hematocrit interpolated on each element
  R_,              \* radius at each vessel data dof
  thick_,          \* wall thickness at each vessel data dof
  CSarea_, CSper_, \* cross section area and perimeter at each vessel data dof
  THICKFILE,       \* the thickness file: whether it opens, and what it holds
  E_vec_,          \* Young modulus of the branch, over P (param.E(mimv, i)/P_)
  IMPORT_RADIUS,   \* FILE_.int_value("IMPORT_RADIUS")
  cerr             \* number of messages written to cerr

pvars == <<visco_v, H_const, R_, thick_, CSarea_, CSper_, THICKFILE, E_vec_,
           IMPORT_RADIUS, cerr>>

(***************************************************************************)
(* The call of iteration_solve, and the checkpoints of solve_fixpoint.     *)
(***************************************************************************)
VARIABLES
  x_sol,           \* what SuperLU_solve leaves in U_new
  U_O_arg,         \* the parameter U_O of iteration_solve, a copy of the argument
  Save_it,         \* descr.Save_it
  print_res,       \* descr.print_residual
  H_START,         \* PARAM "H_START": the hematocrit start value
  exports          \* the iterations in which export_vtk has been called

rvars == <<x_sol, U_O_arg>>

evars == <<Save_it, print_res, H_START, exports>>

vars == <<tvars, svars, dvars, pvars, rvars, evars>>

(***************************************************************************)
(* The mesh.                                                               *)
(***************************************************************************)
Abs(x) == IF x < 0 THEN 0 - x ELSE x

NbPoints == MaxCv + 1
Points == 0 .. (NbPoints - 1)
NbCv == Cardinality(DOMAIN pts)
Convexes == DOMAIN pts

\* bgeot simplex structure of dimension 1: face f holds the point opposite to it
ind_points_of_face(f) == IF f = 0 THEN <<1>> ELSE <<0>>

\* global index of the local point k (0 or 1) of convex c
ind_points_of_convex(c, k) == pts[c][k + 1]

\* the convexes incident to point i, in increasing order
convex_to_point_set(i) ==
  {c \in Convexes : \E k \in 1 .. Len(pts[c]) : pts[c][k] = i}

RECURSIVE SortedSeq(_)
SortedSeq(S) ==
  IF S = {} THEN <<>>
  ELSE LET m == CHOOSE x \in S : \A y \in S : x <= y
       IN <<m>> \o SortedSeq(S \ {m})

convex_to_point(i) == SortedSeq(convex_to_point_set(i))

Degree(i) == Len(convex_to_point(i))

\* meshh.region(b).is_in(c)
is_in(b, c) == reg[c] = b

\* a has_region that never reports an existing region
has_region_never(r) == FALSE

has_region(r) == r \in regions

\* param.R(mimv, branch): mean radius of a branch region
R(branch) == 2 * branch + 3

\* constructor of a node record
node(label, value, idx, rg) ==
  [label |-> label, value |-> value, idx |-> idx, rg |-> rg, branches |-> <<>>]

(***************************************************************************)
(* Linear searches of the scan.                                            *)
(***************************************************************************)
\* while (!contained && branch<nb_branches): first branch region holding c,
\* nb_branches when there is none
FindBranch(c) ==
  LET S == {b \in 0 .. (nb_branches - 1) : is_in(b, c)}
  IN IF S = {} THEN nb_branches ELSE CHOOSE b \in S : \A x \in S : b <= x

\* as FindBranch, skipping the branch `skip`
FindOtherBranch(c, skip) ==
  LET S == {b \in 0 .. (nb_branches - 1) : b # skip /\ is_in(b, c)}
  IN IF S = {} THEN nb_branches ELSE CHOOSE b \in S : \A x \in S : b <= x

\* while (!found && bc<BCv_HT.size()): 1-based position of the first node
\* with idx = i, Len+1 when there is none
FindBC(i) ==
  LET S == {k \in 1 .. Len(BCv_HT) : BCv_HT[k].idx = i}
  IN IF S = {} THEN Len(BCv_HT) + 1 ELSE CHOOSE k \in S : \A x \in S : k <= x

\* while (!found && jj < nb_junctions): 1-based position in J of the first
\* junction node with idx = i among the first nj, nj+1 when there is none
FindJunction(J, nj, i) ==
  LET S == {k \in 1 .. nj : k <= Len(J) /\ J[k].idx = i}
  IN IF S = {} THEN nj + 1 ELSE CHOOSE k \in S : \A x \in S : k <= x

(***************************************************************************)
(* Values of the fixed-point solver. A flow vector has a tissue pressure   *)
(* block Pt, a vessel velocity block Uv and a vessel pressure block Pv     *)
(* (one coefficient each); the hematocrit vector has one coefficient.      *)
(* Lengths are fixed-point numbers with RScale units per unit length.      *)
(* A geometric quantity is kept as the expression the code computes it     *)
(* with: its law, the radius r the law is applied to, and the equivalent   *)
(* pressure p of the collapse laws as a reduced fraction.                  *)
(***************************************************************************)
FlowVectors == [Pt : 0 .. MaxP, Uv : 0 .. 1, Pv : 0 .. 1]
ZeroFlow == [Pt |-> 0, Uv |-> 0, Pv |-> 0]
HematocritValues == 0 .. MaxH

RScale == 1000
\* undeformed radius of the vessel, in unit lengths
Ru0 == 20
\* dimensionless Young modulus E/P of the wall
Ei == 18000
\* Poisson modulus nu = NuNum/NuDen
NuNum == 1
NuDen == 2

RECURSIVE GCD(_, _)
GCD(a, b) == IF b = 0 THEN a ELSE GCD(b, a % b)

\* the fraction n/d (d > 0) in lowest terms
Fraction(n, d) ==
  LET g == GCD(Abs(n), d) IN <<n \div g, d \div g>>

NoPressure == <<0, 1>>

Circle(r) == [law |-> "circle", r |-> r, p |-> NoPressure]
\* area = pi*R*R
CircleArea(r) == [law |-> "pi*r*r", r |-> r, p |-> NoPressure]
\* per = 2*pi*R
CirclePer(r) == [law |-> "2*pi*r", r |-> r, p |-> NoPressure]
\* area = 15.95 * pow(e, -0.545 * p_adim) * Rtmp * Rtmp
BuckledArea(r, p) == [law |-> "15.95*exp(-0.545*p)*r*r", r |-> r, p |-> p]
\* R = area / per, with area the buckled area at p and per = 2*pi*Rtmp
HydraulicRadius(r, p) == [law |-> "area/per", r |-> r, p |-> p]

\* cond = U/P/d * area^2 * 2(Gamma+2)/pi / R^4 * (1 + Curv^2 R^2)
PoiseuilleCond(area, r) ==
  [law |-> "poiseuille", area |-> area, r4 |-> r, ustar |-> NoPressure]
\* cond = area^2 / Rtmp^4 / (69.56 * pow(e, -1.74 * p_adim))
BuckledCond(area, r, p) ==
  [law |-> "buckled", area |-> area, r4 |-> r, ustar |-> p]

ClearedAM ==
  [area |-> CircleArea(0), cond |-> PoiseuilleCond(CircleArea(0), Circle(0)),
   mu |-> [kind |-> "none", h |-> 0, d |-> Circle(0)],
   per |-> CirclePer(0), Mbar |-> Circle(0)]

\* the arrays of param3d1d::build while no specification looks at them
BuildNotStarted ==
  /\ H_const = <<>>
  /\ R_ = <<>>
  /\ thick_ = <<>>
  /\ CSarea_ = <<>>
  /\ CSper_ = <<>>
  /\ THICKFILE = [open |-> FALSE]
  /\ cerr = 0
  /\ E_vec_ = Ei
  /\ IMPORT_RADIUS = TRUE

\* iteration_solve while it is not being called
RelaxNotStarted ==
  /\ x_sol = 0
  /\ U_O_arg = 0

\* no checkpoint has been written
NoExport == exports = {}

\* the diffusivity variables while assembly_mat is not running
DiffusivityNotStarted ==
  /\ convex_size = <<>>
  /\ Uvi = <<>>
  /\ Theta = 0
  /\ ib = 0
  /\ max_size = 0
  /\ max_product = 0
  /\ Diffusivity = <<0, 1>>
  /\ mf_Hi = <<>>
  /\ shift_H = 0
  /\ dpc = "idle"

\* the solver variables while the mesh is being scanned: solve_fixpoint has
\* not been entered
SolverNotStarted ==
  /\ Max_it = 0
  /\ compliant = FALSE
  /\ thick = 0
  /\ alfa = <<1, 1>>
  /\ UM = ZeroFlow
  /\ U_old = ZeroFlow
  /\ U_new = ZeroFlow
  /\ UM_HT = 0
  /\ H_old = 0
  /\ H_new = 0
  /\ iteration = 0
  /\ RK = TRUE
  /\ resSol = <<0, 1>>
  /\ resCM = <<0, 1>>
  /\ resH = <<0, 1>>
  /\ p_int = 0
  /\ p_ext = 0
  /\ Rv = Circle(RScale * Ru0)
  /\ CSarea = CircleArea(RScale * Ru0)
  /\ CSper = CirclePer(RScale * Ru0)
  /\ r_und = Ru0
  /\ resistance_rvar = PoiseuilleCond(CircleArea(0), Circle(0))
  /\ Mbar = Circle(0)
  /\ MU = [kind |-> "none", h |-> 0, d |-> Circle(0)]
  /\ AM = ClearedAM
  /\ Bvv = 0
  /\ TFR = 0
  /\ AM_HT = [Uv |-> 0, area |-> CircleArea(0), H |-> 0]
  /\ cond = "none"
  /\ msg = FALSE
  /\ ret = FALSE
  /\ spc = "entry"

(***************************************************************************)
(* Initial states: the meshes the import of the points file produces. A    *)
(* mesh is a list of at most MaxCv two-point convexes; each branch is a    *)
(* run of consecutive convexes, each starting where the previous one ends, *)
(* and the branch regions are numbered 0..nb_branches-1 in that order.     *)
(* Points are numbered in the order in which the convexes name them. Any   *)
(* set of degree-1 points may be pre-registered in BCv_HT, and at most one *)
(* region id above the branch regions may already exist in the mesh.       *)
(***************************************************************************)
Edges == {e \in Points \X Points : e[1] # e[2]}

PointsOf(m) == {m[k][1] : k \in 1 .. Len(m)} \cup {m[k][2] : k \in 1 .. Len(m)}

\* the convex e may follow the convexes of m: it joins two points not yet
\* joined, and a point not yet named gets the next free index
MayFollow(m, e) ==
  LET used == PointsOf(m)
      next == Cardinality(used)
  IN /\ \A k \in 1 .. Len(m) : {m[k][1], m[k][2]} # {e[1], e[2]}
     /\ e[1] \in used \/ e[1] = next
     /\ e[2] \in used \/ e[2] = next \/ (e[1] = next /\ e[2] = next + 1)

\* the lists of n convexes
RECURSIVE Meshes(_)
Meshes(n) ==
  IF n = 1 THEN {<< <<0, 1>> >>}
  ELSE UNION {{Append(m, e) : e \in {x \in Edges : MayFollow(m, x)}} :
                m \in Meshes(n - 1)}

\* the branch of each convex when a new branch starts at the convexes of Cuts
RegionsOf(n, Cuts) ==
  [c \in 0 .. (n - 1) |-> Cardinality({k \in Cuts : k <= c})]

\* inside a branch every convex starts where the previous one ends
BranchesArePaths(m, Cuts) ==
  \A k \in 2 .. Len(m) : (k - 1) \notin Cuts => m[k - 1][2] = m[k][1]

\* the nodes import_pts_file_HT registered, one per point of the set S
RECURSIVE RegisteredNodes(_)
RegisteredNodes(S) ==
  IF S = {} THEN <<>>
  ELSE LET m == CHOOSE x \in S : \A y \in S : x <= y
       IN <<node("DIR", 1, m, 0)>> \o RegisteredNodes(S \ {m})

InitTopo ==
  \E n \in 1 .. MaxCv :
    \E m \in Meshes(n) :
      \E Cuts \in SUBSET (1 .. (n - 1)) :
        /\ BranchesArePaths(m, Cuts)
        /\ pts = [c \in 0 .. (n - 1) |-> m[c + 1]]
        /\ reg = RegionsOf(n, Cuts)
        /\ nb_branches = Cardinality(Cuts) + 1
        /\ \E pre \in {{}} \cup {{Cardinality(Cuts) + 1 + k} : k \in 0 .. ExtraRg} :
             regions = (0 .. Cardinality(Cuts)) \cup pre
        /\ \E S \in SUBSET {i \in PointsOf(m) :
                              Cardinality({k \in 1 .. n :
                                 m[k][1] = i \/ m[k][2] = i}) = 1} :
             BCv_HT = RegisteredNodes(S)
        /\ Jv_HT = <<>>
        /\ junctions = {}
        /\ extrema = {}
        /\ nb_extrema = 0
        /\ nb_junctions = 0
        /\ fer = 0
        /\ cv = 0
        /\ tpc = "start"
        /\ ub = FALSE
        /\ SolverNotStarted
        /\ DiffusivityNotStarted
        /\ RelaxNotStarted
        /\ Save_it = 1
        /\ print_res = TRUE
        /\ H_START = 1
        /\ NoExport
        /\ BuildNotStarted
        /\ visco_v = 0

(***************************************************************************)
(* build_vessel_boundary, lines 133-147: clears the junction list, sets    *)
(* the first empty region and starts the loop over the convexes.           *)
(***************************************************************************)
FirstEmptyRegion == nb_branches

ScanStart ==
  /\ tpc = "start"
  /\ Jv_HT' = <<>>
  /\ nb_extrema' = 0
  /\ nb_junctions' = 0
  /\ fer' = FirstEmptyRegion
  /\ cv' = 0
  /\ tpc' = IF has_region(FirstEmptyRegion) THEN "abort" ELSE "i0"
  /\ UNCHANGED dvars
  /\ UNCHANGED pvars
  /\ UNCHANGED rvars
  /\ UNCHANGED evars
  /\ UNCHANGED svars
  /\ UNCHANGED <<pts, reg, nb_branches, regions, BCv_HT, junctions, extrema, ub>>

\* the two points of the convex being visited (lines 157-158)
i0 == ind_points_of_convex(cv, ind_points_of_face(1)[1])
i1 == ind_points_of_convex(cv, ind_points_of_face(0)[1])

\* the region counter after a record has claimed the id f
NextFer(f) == f + 1

\* an inflow entry stored without its sign
InflowEntry_unsigned(branch) == branch

\* the entry stored for a branch that has the junction as its first point
InflowEntry(branch) == 0 - branch
\* the entry stored for a branch that has the junction as its second point
OutflowEntry(branch) == branch

\* a weight that accumulates the branch index instead of the branch radius
AddWeight_index(value, branch) == value + branch

\* Jv_HT[jj].value += param.R(mimv, branch)
AddWeight(value, branch) == value + R(branch)

\* a junction list that is never found to hold a point
contains_never(S, i) == FALSE

\* junctions.contains(tmp), tmp holding the point i alone
contains(S, i) == i \in S

\* a test that takes every point of degree 2 for a junction
is_junc_always(firstbranch, cv1, cv2) == TRUE

\* lines 290-291: one of the two convexes at i1 is not in the first branch
is_junc(firstbranch, cv1, cv2) ==
  ~is_in(firstbranch, cv1) \/ ~is_in(firstbranch, cv2)

\* a node that gets the weight of the branch but not its entry
AttachBranch_weight(L, k, e, branch) ==
  [L EXCEPT ![k].value = AddWeight(@, branch)]

\* the node at position k of list L gets the branch entry e and its weight
AttachBranch(L, k, e, branch) ==
  [L EXCEPT ![k].value = AddWeight(@, branch), ![k].branches = Append(@, e)]

\* the state left by a failed GMM_ASSERT1: the exception leaves the scan
Fatal == "abort"

\* position of the scan after the second point of convex cv has been handled
AfterConvex == IF cv + 1 < NbCv THEN "i0" ELSE "done"

(***************************************************************************)
(* First point i0 of the convex, lines 160-227.                            *)
(***************************************************************************)
\* lines 160-187, i0 of degree 1 and listed in BCv_HT
I0Extremum ==
  /\ tpc = "i0"
  /\ Degree(i0) = 1
  /\ FindBC(i0) <= Len(BCv_HT)
  /\ extrema' = extrema \cup {i0}
  /\ nb_extrema' = nb_extrema + 1
  /\ IF has_region(fer)
     THEN /\ tpc' = Fatal
          /\ UNCHANGED <<regions, BCv_HT, fer>>
     ELSE LET bc == FindBC(i0)
              branch == FindBranch(cv)
          IN /\ regions' = regions \cup {fer}
             /\ BCv_HT' = [BCv_HT EXCEPT ![bc].rg = fer,
                                         ![bc].branches = Append(@, branch)]
             /\ fer' = NextFer(fer)
             /\ tpc' = "i1"
  /\ UNCHANGED dvars
  /\ UNCHANGED pvars
  /\ UNCHANGED rvars
  /\ UNCHANGED evars
  /\ UNCHANGED svars
  /\ UNCHANGED <<pts, reg, nb_branches, Jv_HT, junctions, nb_junctions, cv, ub>>

\* lines 160-187, i0 of degree 1 and not listed in BCv_HT: the assertion of
\* line 175 is an assignment and never fails, so BCv_HT[bc] is accessed with
\* bc = BCv_HT.size(). The write lands outside the list: the run either
\* crashes or goes on with the list as it was.
I0ExtremumUnlisted ==
  /\ tpc = "i0"
  /\ Degree(i0) = 1
  /\ FindBC(i0) > Len(BCv_HT)
  /\ extrema' = extrema \cup {i0}
  /\ nb_extrema' = nb_extrema + 1
  /\ IF has_region(fer)
     THEN /\ tpc' = Fatal
          /\ UNCHANGED <<regions, fer, ub>>
     ELSE /\ regions' = regions \cup {fer}
          /\ ub' = TRUE
          /\ \/ /\ tpc' = "crash"
                /\ UNCHANGED fer
             \/ /\ tpc' = "i1"
                /\ fer' = NextFer(fer)
  /\ UNCHANGED dvars
  /\ UNCHANGED pvars
  /\ UNCHANGED rvars
  /\ UNCHANGED evars
  /\ UNCHANGED svars
  /\ UNCHANGED <<pts, reg, nb_branches, BCv_HT, Jv_HT, junctions, nb_junctions, cv>>

\* lines 188-190, i0 of degree 2: nothing is done
I0Interior ==
  /\ tpc = "i0"
  /\ Degree(i0) = 2
  /\ tpc' = "i1"
  /\ UNCHANGED dvars
  /\ UNCHANGED pvars
  /\ UNCHANGED rvars
  /\ UNCHANGED evars
  /\ UNCHANGED svars
  /\ UNCHANGED <<pts, reg, nb_branches, regions, BCv_HT, Jv_HT, junctions,
                 extrema, nb_extrema, nb_junctions, fer, cv, ub>>

\* lines 191-227, i0 of degree 3 or more
I0Junction ==
  /\ tpc = "i0"
  /\ Degree(i0) \notin {1, 2}
  /\ Degree(i0) >= 2
  /\ LET new == ~contains(junctions, i0)
         nj == IF new THEN nb_junctions + 1 ELSE nb_junctions
     IN /\ junctions' = junctions \cup {i0}
        /\ nb_junctions' = nj
        /\ IF new /\ has_region(fer)
           THEN /\ tpc' = Fatal
                /\ UNCHANGED <<regions, Jv_HT, fer>>
           ELSE LET J == IF new THEN Append(Jv_HT, node("JUN", 0, i0, fer))
                                ELSE Jv_HT
                    branch == FindBranch(cv)
                    jj == FindJunction(J, nj, i0)
                IN /\ regions' = IF new THEN regions \cup {fer} ELSE regions
                   /\ fer' = IF new THEN NextFer(fer) ELSE fer
                   /\ Jv_HT' = AttachBranch(J, jj, InflowEntry(branch), branch)
                   /\ tpc' = IF branch > 0 THEN "i1" ELSE Fatal
  /\ UNCHANGED dvars
  /\ UNCHANGED pvars
  /\ UNCHANGED rvars
  /\ UNCHANGED evars
  /\ UNCHANGED svars
  /\ UNCHANGED <<pts, reg, nb_branches, BCv_HT, extrema, nb_extrema, cv, ub>>

(***************************************************************************)
(* Second point i1 of the convex, lines 229-380.                           *)
(***************************************************************************)
\* lines 229-256, i1 of degree 1 and listed in BCv_HT
I1Extremum ==
  /\ tpc = "i1"
  /\ Degree(i1) = 1
  /\ FindBC(i1) <= Len(BCv_HT)
  /\ extrema' = extrema \cup {i1}
  /\ nb_extrema' = nb_extrema + 1
  /\ IF has_region(fer)
     THEN /\ tpc' = Fatal
          /\ UNCHANGED <<regions, BCv_HT, fer, cv>>
     ELSE LET bc == FindBC(i1)
              branch == FindBranch(cv)
          IN /\ regions' = regions \cup {fer}
             /\ BCv_HT' = [BCv_HT EXCEPT ![bc].value = @ * 1,
                                         ![bc].rg = fer,
                                         ![bc].branches = Append(@, branch)]
             /\ fer' = NextFer(fer)
             /\ tpc' = AfterConvex
             /\ cv' = cv + 1
  /\ UNCHANGED dvars
  /\ UNCHANGED pvars
  /\ UNCHANGED rvars
  /\ UNCHANGED evars
  /\ UNCHANGED svars
  /\ UNCHANGED <<pts, reg, nb_branches, Jv_HT, junctions, nb_junctions, ub>>

\* lines 257-274, i1 of degree 1 and not listed in BCv_HT: a MIX node is added
I1Mixed ==
  /\ tpc = "i1"
  /\ Degree(i1) = 1
  /\ FindBC(i1) > Len(BCv_HT)
  /\ IF has_region(fer)
     THEN /\ tpc' = Fatal
          /\ UNCHANGED <<regions, BCv_HT, fer, cv>>
     ELSE LET branch == FindBranch(cv)
          IN /\ regions' = regions \cup {fer}
             /\ BCv_HT' = Append(BCv_HT,
                   [node("MIX", 0, i1, fer) EXCEPT !.branches = <<branch>>])
             /\ fer' = NextFer(fer)
             /\ tpc' = AfterConvex
             /\ cv' = cv + 1
  /\ UNCHANGED dvars
  /\ UNCHANGED pvars
  /\ UNCHANGED rvars
  /\ UNCHANGED evars
  /\ UNCHANGED svars
  /\ UNCHANGED <<pts, reg, nb_branches, Jv_HT, junctions, extrema, nb_extrema,
                 nb_junctions, ub>>

\* -1 when point i is the local point 0 of convex c, +1 when it is the local
\* point 1, 0 otherwise (lines 321-324 and 328-330)
InSign(c, i) ==
  IF ind_points_of_convex(c, 0) = i THEN 0 - 1
  ELSE IF ind_points_of_convex(c, 1) = i THEN 1
  ELSE 0

\* lines 276-337, i1 of degree 2: a junction when the two convexes at i1 are
\* not both in the branch of cv, recorded the first time only
I1Trivial ==
  /\ tpc = "i1"
  /\ Degree(i1) = 2
  /\ LET firstbranch == FindBranch(cv)
         cv1 == convex_to_point(i1)[1]
         cv2 == convex_to_point(i1)[2]
         junc == is_junc(firstbranch, cv1, cv2)
     IN IF junc /\ ~contains(junctions, i1)
        THEN /\ junctions' = junctions \cup {i1}
             /\ nb_junctions' = nb_junctions + 1
             /\ IF has_region(fer)
                THEN /\ tpc' = Fatal
                     /\ UNCHANGED <<regions, Jv_HT, fer, cv>>
                ELSE LET secondcv == IF cv1 = cv THEN cv2 ELSE cv1
                         firstcv == IF cv1 # cv THEN cv2 ELSE cv1
                         secondbranch == FindOtherBranch(secondcv, firstbranch)
                         in1 == InSign(firstcv, i1)
                         in2 == InSign(secondcv, i1)
                         J0 == Append(Jv_HT, node("JUN", 0, i1, fer))
                         k == Len(J0)
                         J1 == AttachBranch(J0, k, in1 * firstbranch, firstbranch)
                         J2 == AttachBranch(J1, k, in2 * secondbranch, secondbranch)
                     IN /\ regions' = regions \cup {fer}
                        /\ fer' = NextFer(fer)
                        /\ Jv_HT' = J2
                        /\ IF in1 # 0 /\ in2 # 0
                           THEN tpc' = AfterConvex /\ cv' = cv + 1
                           ELSE tpc' = Fatal /\ UNCHANGED cv
        ELSE /\ tpc' = AfterConvex
             /\ cv' = cv + 1
             /\ UNCHANGED <<regions, Jv_HT, junctions, nb_junctions, fer>>
  /\ UNCHANGED dvars
  /\ UNCHANGED pvars
  /\ UNCHANGED rvars
  /\ UNCHANGED evars
  /\ UNCHANGED svars
  /\ UNCHANGED <<pts, reg, nb_branches, BCv_HT, extrema, nb_extrema, ub>>

\* lines 338-380, i1 of degree 3 or more
I1Junction ==
  /\ tpc = "i1"
  /\ Degree(i1) \notin {1, 2}
  /\ Degree(i1) >= 2
  /\ LET branch == FindBranch(cv)
     IN IF ~contains(junctions, i1)
        THEN /\ junctions' = junctions \cup {i1}
             /\ nb_junctions' = nb_junctions + 1
             /\ IF has_region(fer)
                THEN /\ tpc' = Fatal
                     /\ UNCHANGED <<regions, Jv_HT, fer, cv>>
                ELSE LET J0 == Append(Jv_HT, node("JUN", 0, i1, fer))
                     IN /\ regions' = regions \cup {fer}
                        /\ Jv_HT' = AttachBranch(J0, Len(J0), OutflowEntry(branch), branch)
                        /\ fer' = NextFer(fer)
                        /\ tpc' = AfterConvex
                        /\ cv' = cv + 1
        ELSE LET jj == FindJunction(Jv_HT, nb_junctions, i1)
             IN /\ Jv_HT' = AttachBranch(Jv_HT, jj, OutflowEntry(branch), branch)
                /\ tpc' = AfterConvex
                /\ cv' = cv + 1
                /\ UNCHANGED <<regions, junctions, nb_junctions, fer>>
  /\ UNCHANGED dvars
  /\ UNCHANGED pvars
  /\ UNCHANGED rvars
  /\ UNCHANGED evars
  /\ UNCHANGED svars
  /\ UNCHANGED <<pts, reg, nb_branches, BCv_HT, extrema, nb_extrema, ub>>

NextTopo ==
  \/ ScanStart
  \/ I0Extremum
  \/ I0ExtremumUnlisted
  \/ I0Interior
  \/ I0Junction
  \/ I1Extremum
  \/ I1Mixed
  \/ I1Trivial
  \/ I1Junction

SpecTopo == InitTopo /\ [][NextTopo]_vars

(***************************************************************************)
(* Meshes with a topology error: one convex of an imported mesh either has *)
(* a third point or is in none of the branch regions (reg = -1).           *)
(***************************************************************************)
NoRegion == 0 - 1

InitTopoLoose ==
  \E n \in 1 .. (MaxCv - 1) :
    \E m \in Meshes(n) :
      \E Cuts \in SUBSET (1 .. (n - 1)) :
        \E bad \in 0 .. (n - 1) :
          \E third \in (PointsOf(m) \cup {Cardinality(PointsOf(m)), NbPoints})
                          \ {m[bad + 1][1], m[bad + 1][2]} :
            /\ BranchesArePaths(m, Cuts)
            /\ third <= NbPoints
            /\ pts = [c \in 0 .. (n - 1) |->
                        IF c = bad /\ third < NbPoints
                        THEN Append(m[c + 1], third) ELSE m[c + 1]]
            /\ reg = [c \in 0 .. (n - 1) |->
                        IF c = bad /\ third = NbPoints
                        THEN NoRegion ELSE RegionsOf(n, Cuts)[c]]
            /\ nb_branches = Cardinality(Cuts) + 1
            /\ regions = 0 .. Cardinality(Cuts)
            /\ \E S \in SUBSET {i \in PointsOf(m) :
                                  Cardinality({k \in 1 .. n :
                                     m[k][1] = i \/ m[k][2] = i}) = 1} :
                 BCv_HT = RegisteredNodes(S)
            /\ Jv_HT = <<>>
            /\ junctions = {}
            /\ extrema = {}
            /\ nb_extrema = 0
            /\ nb_junctions = 0
            /\ fer = 0
            /\ cv = 0
            /\ tpc = "start"
            /\ ub = FALSE
            /\ SolverNotStarted
            /\ DiffusivityNotStarted
            /\ RelaxNotStarted
            /\ Save_it = 1
            /\ print_res = TRUE
            /\ H_START = 1
            /\ NoExport
            /\ BuildNotStarted
            /\ visco_v = 0

SpecTopoLoose == InitTopoLoose /\ [][NextTopo]_vars

(***************************************************************************)
(* Properties of build_vessel_boundary.                                    *)
(***************************************************************************)
\* positions of the boundary nodes of point v that received a region id and
\* a branch during the scan
BCRecordsOf(v) ==
  {k \in 1 .. Len(BCv_HT) : BCv_HT[k].idx = v /\ BCv_HT[k].branches # <<>>}

JunctionRecordsOf(v) == {k \in 1 .. Len(Jv_HT) : Jv_HT[k].idx = v}

\* the points that end a branch: degree 1, degree 3 or more, or degree 2
\* between convexes of two different branch regions
IsBranchEndpoint(v) ==
  \/ Degree(v) = 1
  \/ Degree(v) >= 3
  \/ /\ Degree(v) = 2
     /\ reg[convex_to_point(v)[1]] # reg[convex_to_point(v)[2]]

BranchEndpoints == {v \in Points : Degree(v) >= 1 /\ IsBranchEndpoint(v)}

\* C6: after the scan of a valid mesh every branch endpoint appears in
\* exactly one record, a boundary node that received a region id or a
\* junction node, whatever the orientation of the incident convexes (stated
\* for the runs in which no access left the boundary list).
C6_EveryEndpointOnce ==
  (tpc = "done" /\ ~ub) =>
     \A v \in BranchEndpoints :
        Cardinality(BCRecordsOf(v)) + Cardinality(JunctionRecordsOf(v)) = 1

\* the degree-1 points the scan has already handled
HandledExtrema ==
  {v \in Points :
     /\ Degree(v) = 1
     /\ tpc \in {"i0", "i1", "done"}
     /\ LET c == convex_to_point(v)[1]
        IN \/ tpc = "done"
           \/ c < cv
           \/ c = cv /\ tpc = "i1" /\ v = i0}

\* C7: every degree-1 point the scan has handled, first or second point of
\* its convex, has a boundary node holding a region id and the branch of its
\* convex, a node that is either a pre-registered one or a MIX node of value
\* 0; and no access to the boundary list was out of range.
C7_ExtremaRecorded ==
  /\ ~ub
  /\ \A v \in HandledExtrema :
        \E k \in 1 .. Len(BCv_HT) :
           /\ BCv_HT[k].idx = v
           /\ BCv_HT[k].rg >= nb_branches
           /\ BCv_HT[k].branches = <<reg[convex_to_point(v)[1]]>>
           /\ BCv_HT[k].label # "DIR" =>
                 (BCv_HT[k].label = "MIX" /\ BCv_HT[k].value = 0)

\* number of positions of the sequence s holding x
Count(s, x) == Cardinality({k \in 1 .. Len(s) : s[k] = x})

EntryRange == (0 - MaxCv) .. MaxCv

\* the entry the code stores for convex e at junction point v: minus the
\* branch when v is the first point of e, plus the branch when it is the second
CodeEntry(e, v) == IF pts[e][1] = v THEN 0 - reg[e] ELSE reg[e]

\* the entry of the opposite convention: minus the branch when e is oriented
\* into v (v is its second point), plus the branch when oriented out of v
IntoNegativeEntry(e, v) == IF pts[e][2] = v THEN 0 - reg[e] ELSE reg[e]

\* C8 (as amended): when the scan has finished, the branch list of every
\* junction node holds one entry per convex incident to the junction point:
\* minus the branch index for a convex that starts at the point, plus the
\* branch index for a convex that ends at it.
C8_EntrySigns ==
  tpc = "done" =>
     \A k \in 1 .. Len(Jv_HT) :
        \A x \in EntryRange :
           Count(Jv_HT[k].branches, x) =
              Cardinality({e \in convex_to_point_set(Jv_HT[k].idx) :
                              CodeEntry(e, Jv_HT[k].idx) = x})

\* C8 as stated: entries negative for convexes oriented into the junction
\* point and positive for convexes oriented out of it
C8_EntrySignsAsStated ==
  tpc = "done" =>
     \A k \in 1 .. Len(Jv_HT) :
        \A x \in EntryRange :
           Count(Jv_HT[k].branches, x) =
              Cardinality({e \in convex_to_point_set(Jv_HT[k].idx) :
                              IntoNegativeEntry(e, Jv_HT[k].idx) = x})

\* a finished scan with a junction that has a negative and a positive entry
C8_Witness ==
  /\ tpc = "done"
  /\ \E k \in 1 .. Len(Jv_HT) :
        /\ \E a \in 1 .. Len(Jv_HT[k].branches) : Jv_HT[k].branches[a] < 0
        /\ \E a \in 1 .. Len(Jv_HT[k].branches) : Jv_HT[k].branches[a] > 0

\* the region ids held by records: boundary nodes that received one, and
\* all junction nodes
AssignedBC == {k \in 1 .. Len(BCv_HT) : BCv_HT[k].branches # <<>>}

RecordIds ==
  {BCv_HT[k].rg : k \in AssignedBC} \cup {Jv_HT[k].rg : k \in 1 .. Len(Jv_HT)}

NbRecordsWithId == Cardinality(AssignedBC) + Len(Jv_HT)

\* one step of the scan, as far as region ids are concerned
C9_Step ==
  IF tpc = "start"
  THEN fer' = nb_branches
  ELSE /\ fer' \in {fer, fer + 1}
       /\ NbRecordsWithId' \in {NbRecordsWithId, NbRecordsWithId + 1}
       /\ NbRecordsWithId' = NbRecordsWithId + 1 =>
             /\ fer' = fer + 1
             /\ fer \notin regions
             /\ RecordIds' = RecordIds \cup {fer}
       /\ NbRecordsWithId' = NbRecordsWithId => RecordIds' = RecordIds
       /\ Cardinality(RecordIds') = NbRecordsWithId'
       /\ \A r \in RecordIds' : r >= nb_branches /\ r < fer'

\* C9: region ids come from one counter that starts at nb_branches and grows
\* by one per record that claims an id; the ids held by records are pairwise
\* distinct, none is a branch region id, and no record is created for an id
\* that already exists as a mesh region.
C9_RegionIds == [][C9_Step]_vars

\* a finished scan in which a boundary node and a junction node hold ids
C9_Witness ==
  /\ tpc = "done"
  /\ AssignedBC # {}
  /\ Len(Jv_HT) >= 1
  /\ fer = nb_branches + NbRecordsWithId

\* a convex with a topology error: more than two points, or in no branch
\* region
BadElement(c) == Len(pts[c]) > 2 \/ FindBranch(c) = nb_branches

\* the scan has gone past the first point of convex c
ScanWentOn(c) == c < cv \/ (c = cv /\ tpc = "i1")

\* the branch entries held by the records
RecordedEntries ==
  UNION {{BCv_HT[k].branches[a] : a \in 1 .. Len(BCv_HT[k].branches)} :
            k \in 1 .. Len(BCv_HT)}
  \cup UNION {{Jv_HT[k].branches[a] : a \in 1 .. Len(Jv_HT[k].branches)} :
                 k \in 1 .. Len(Jv_HT)}

\* C11: the scan does not go on past a convex that has more than two points
\* or that no branch region below nb_branches contains, and no record holds
\* a branch index outside 0..nb_branches-1 (stated for the runs in which no
\* access left the boundary list).
C11_TopologyErrorsFatal ==
  ~ub =>
    /\ \A c \in Convexes : BadElement(c) => ~ScanWentOn(c)
    /\ \A e \in RecordedEntries : Abs(e) < nb_branches

RECURSIVE SumRadii(_)
SumRadii(s) == IF s = <<>> THEN 0 ELSE R(Abs(Head(s))) + SumRadii(Tail(s))

\* C10: in every state of the scan the weight of each junction node is the
\* sum of the radii of the branches named by its branch list.
C10_JunctionWeight ==
  \A k \in 1 .. Len(Jv_HT) : Jv_HT[k].value = SumRadii(Jv_HT[k].branches)

\* a finished scan with a junction joining three branches
C10_Witness ==
  /\ tpc = "done"
  /\ \E k \in 1 .. Len(Jv_HT) :
        /\ Len(Jv_HT[k].branches) = 3
        /\ Cardinality({Abs(Jv_HT[k].branches[a]) : a \in 1 .. 3}) = 3
        /\ Jv_HT[k].value = R(0) + R(1) + R(2)

(***************************************************************************)
(* solve_fixpoint: the outer fixed-point iteration.                        *)
(***************************************************************************)
\* tolerances descr.epsSol, descr.epsCM and descrHT.epsH, as fractions
epsSol == <<1, 2>>
epsCM == <<1, 2>>
epsH == <<1, 2>>

\* r > e for a residual r = <<numerator, denominator>> of a floating-point
\* division (denominator >= 0) and a tolerance e: a zero denominator gives
\* +infinity when the numerator is positive and a NaN, which compares false,
\* when it is zero
Exceeds(r, e) ==
  IF r[2] = 0 THEN r[1] > 0 ELSE r[1] * e[2] > e[1] * r[2]

\* fabs of a residual
Fabs(r) == <<Abs(r[1]), Abs(r[2])>>

\* a continuation test that forgets the hematocrit residual
ContinueTest_noH(rs, rc, rh) == Exceeds(rs, epsSol) \/ Exceeds(Fabs(rc), epsCM)

\* line 1283: RK = resSol>epsSol || fabs(resCM) > epsCM || resH > epsH
ContinueTest(rs, rc, rh) ==
  Exceeds(rs, epsSol) \/ Exceeds(Fabs(rc), epsCM) \/ Exceeds(rh, epsH)

\* problemHT::calcolo_Rk: ||U_N - U_O|| / ||U_O|| for one-coefficient vectors
calcolo_Rk(U_N, U_O) == <<Abs(U_N - U_O), Abs(U_O)>>

\* problemHT::iteration_solve: x is the result of the linear solve; for
\* alfa # 1 the result is alfa*x + (1-alfa)*U_O
iteration_solve(U_O, x) ==
  IF alfa[1] = alfa[2] THEN x
  ELSE (alfa[1] * x + (alfa[2] - alfa[1]) * U_O) \div alfa[2]

\* equivalent pressure above which the venule is taken as fully collapsed
CollapseLimit == 5

\* a collapse law that is extrapolated beyond the limit configuration
LimitConfiguration_none(p) == p

\* lines 1502-1511: the equivalent pressure the saved area and conductance
\* are computed with: p_adim itself below the limit, the limit from there on
LimitConfiguration(p) ==
  IF p[1] < CollapseLimit * p[2] THEN p ELSE <<CollapseLimit, 1>>

\* lines 1461-1469, arteriole: the cross-section remains circular
ArterioleLaw(E, Ru, hu, pint, pext) ==
  LET deltap == pext - pint
      r0 == RScale * Ru
      den == (Ru + hu) * (Ru + hu) - Ru * Ru
      bracket == (NuDen - NuNum) * (pint * Ru * Ru - pext * (Ru + hu) * (Ru + hu))
                 - (NuDen + NuNum) * deltap * (Ru + hu) * (Ru + hu)
      r == r0 + ((RScale * Ru * bracket) \div (NuDen * E * den))
  IN [R |-> Circle(r), area |-> CircleArea(r), per |-> CirclePer(r),
      cond |-> PoiseuilleCond(CircleArea(r), Circle(r))]

\* lines 1480-1486, venule that remains circular
CircularVenuleLaw(E, Ru, hu, pint, pext) ==
  LET deltap == pext - pint
      r0 == RScale * Ru
      r == r0 - ((RScale * Ru * Ru * (NuDen * NuDen - NuNum * NuNum) * deltap)
                 \div (hu * E * NuDen * NuDen))
  IN [R |-> Circle(r), area |-> CircleArea(r), per |-> CirclePer(r),
      cond |-> PoiseuilleCond(CircleArea(r), Circle(r))]

\* a buckled law that takes the hydraulic radius from the saved area
BuckledVenuleLaw_savedArea(E, Ru, hu, pint, pext) ==
  LET deltap == pext - pint
      r0 == RScale * Ru
      p_adim == Fraction(12 * deltap * (NuDen * NuDen - NuNum * NuNum)
                            * Ru * Ru * Ru,
                         E * NuDen * NuDen * hu * hu * hu)
      limit == LimitConfiguration(p_adim)
  IN [R |-> HydraulicRadius(r0, limit),
      area |-> BuckledArea(r0, limit),
      per |-> CirclePer(r0),
      cond |-> BuckledCond(BuckledArea(r0, limit), Circle(r0), limit)]

\* lines 1489-1511, venule: buckling
BuckledVenuleLaw(E, Ru, hu, pint, pext) ==
  LET deltap == pext - pint
      r0 == RScale * Ru
      p_adim == Fraction(12 * deltap * (NuDen * NuDen - NuNum * NuNum)
                            * Ru * Ru * Ru,
                         E * NuDen * NuDen * hu * hu * hu)
      limit == LimitConfiguration(p_adim)
  IN [R |-> HydraulicRadius(r0, p_adim),
      area |-> BuckledArea(r0, limit),
      per |-> CirclePer(r0),
      cond |-> BuckledCond(BuckledArea(r0, limit), Circle(r0), limit)]

\* a selection that sends the two boundary cases to the other side
Regime_strict(E, Ru, hu, deltap) ==
  IF 10 * hu > Ru THEN "arteriole"
  ELSE IF deltap * 12 * (NuDen * NuDen - NuNum * NuNum) * Ru * Ru * Ru
             < 3 * E * hu * hu * hu * NuDen * NuDen
       THEN "circular"
       ELSE "buckled"

\* lines 1460, 1472-1476 and 1488: ratio >= 0.1, then deltap <= threshold with
\* threshold = 3*Ei*ratio^3/12/(1-nu*nu), both cleared of their denominators
Regime(E, Ru, hu, deltap) ==
  IF 10 * hu >= Ru THEN "arteriole"
  ELSE IF deltap * 12 * (NuDen * NuDen - NuNum * NuNum) * Ru * Ru * Ru
             <= 3 * E * hu * hu * hu * NuDen * NuDen
       THEN "circular"
       ELSE "buckled"

\* problemHT::vessel_conductivity_vec for one degree of freedom of a branch
\* with Young modulus E: undeformed radius Ru and wall thickness hu in unit
\* lengths, internal and external pressure; gives the radius, area,
\* perimeter and conductance it writes
vessel_conductivity_E(E, Ru, hu, pint, pext) ==
  LET regime == Regime(E, Ru, hu, pext - pint)
  IN IF regime = "arteriole" THEN ArterioleLaw(E, Ru, hu, pint, pext)
     ELSE IF regime = "circular" THEN CircularVenuleLaw(E, Ru, hu, pint, pext)
     ELSE BuckledVenuleLaw(E, Ru, hu, pint, pext)

\* the same with the Young modulus of the parameter file (IMPORT_E off)
vessel_conductivity_vec(Ru, hu, pint, pext) ==
  vessel_conductivity_E(Ei, Ru, hu, pint, pext)

\* line 785: mu_plasma
mu_plasma == [kind |-> "plasma", h |-> 0, d |-> Circle(0)]

\* lines 1008 and 1021: the correlations, kept as the call that is made
viscosity_vivo(h, d) == [kind |-> "vivo", h |-> h, d |-> d]
viscosity_vitro(h, d) == [kind |-> "vitro", h |-> h, d |-> d]

\* a test of the hematocrit that never takes the plasma shortcut
NoHematocrit_never(h) == FALSE

\* lines 1007 and 1020: if(h==0)
NoHematocrit(h) == h = 0

\* lines 1000-1029: the viscosity written for an element with hematocrit h
\* and radius d under selector v; old is the value the element has
viscosity(old, v, h, d) ==
  IF v = 0
  THEN IF NoHematocrit(h) THEN mu_plasma ELSE viscosity_vivo(h, d)
  ELSE IF v = 1
       THEN IF NoHematocrit(h) THEN mu_plasma ELSE viscosity_vitro(h, d)
       ELSE old

\* a flag test that always takes the compliant path
COMPLIANT_VESSELS_always == TRUE

\* line 972: if (COMPLIANT_VESSELS())
COMPLIANT_VESSELS == compliant

\* lines 1047-1054: conductance coefficient of the flow system
FlowConductance ==
  IF COMPLIANT_VESSELS THEN resistance_rvar ELSE PoiseuilleCond(CSarea, Rv)

\* problemHT::assembly: the hematocrit system is built from the vessel
\* velocity in UM, the cross-section area and the hematocrit in UM_HT
\* an assembly that takes the velocity of the previous flow iterate
assembly_old(flow, area, H) == [Uv |-> U_old.Uv, area |-> area, H |-> H]

assembly(flow, area, H) == [Uv |-> flow.Uv, area |-> area, H |-> H]

\* the state of the mesh and of the topology lists while the solver runs:
\* the finished scan of two vessels in a row, 0 -> 1 in branch 0 and 1 -> 2
\* in branch 1, with both ends registered
TopologyBuilt ==
  /\ pts = [c \in {0, 1} |-> IF c = 0 THEN <<0, 1>> ELSE <<1, 2>>]
  /\ reg = [c \in {0, 1} |-> c]
  /\ nb_branches = 2
  /\ regions = {0, 1, 2, 3, 4}
  /\ BCv_HT = <<[node("DIR", 1, 0, 2) EXCEPT !.branches = <<0>>],
                [node("DIR", 1, 2, 4) EXCEPT !.branches = <<1>>]>>
  /\ Jv_HT = <<[node("JUN", R(0) + R(1), 1, 3) EXCEPT !.branches = <<0, 0 - 1>>]>>
  /\ junctions = {1}
  /\ extrema = {0, 2}
  /\ nb_extrema = 2
  /\ nb_junctions = 1
  /\ fer = 5
  /\ cv = 2
  /\ tpc = "done"
  /\ ub = FALSE

\* state on entry of solve_fixpoint: the flow problem has been solved in
\* the main program, the parameters hold the undeformed geometry
InitFix ==
  /\ TopologyBuilt
  /\ Max_it \in 0 .. MaxIt
  /\ compliant \in BOOLEAN
  /\ thick \in {1, 2}
  /\ alfa \in {<<1, 1>>, <<1, 2>>}
  /\ UM \in FlowVectors
  /\ U_old = ZeroFlow
  /\ U_new = ZeroFlow
  /\ UM_HT = 0
  /\ H_old = 0
  /\ H_new = 0
  /\ iteration = 0
  /\ RK = TRUE
  /\ resSol = <<100 * epsSol[1], epsSol[2]>>
  /\ resCM = <<100 * epsCM[1], epsCM[2]>>
  /\ resH = <<100 * epsH[1], epsH[2]>>
  /\ p_int = 0
  /\ p_ext = 0
  /\ Rv = Circle(RScale * Ru0)
  /\ CSarea = CircleArea(RScale * Ru0)
  /\ CSper = CirclePer(RScale * Ru0)
  /\ r_und = Ru0
  /\ resistance_rvar = PoiseuilleCond(CircleArea(0), Circle(0))
  /\ Mbar = Circle(0)
  /\ MU = [kind |-> "none", h |-> 0, d |-> Circle(0)]
  /\ AM = ClearedAM
  /\ Bvv = 0
  /\ TFR = 0
  /\ AM_HT = [Uv |-> 0, area |-> CircleArea(0), H |-> 0]
  /\ cond = "none"
  /\ msg = FALSE
  /\ ret = FALSE
  /\ spc = "entry"
  /\ DiffusivityNotStarted
  /\ RelaxNotStarted
  /\ Save_it = 1
  /\ print_res = TRUE
  /\ H_START = 1
  /\ NoExport
  /\ BuildNotStarted
  /\ visco_v = 0

\* what the condition estimate of gmm::SuperLU_solve can report
CondValues == {"ok", "singular"}

\* values the external solve of the flow residual can return
ResidualValues == {<<0, 1>>, <<1, 1>>}

\* an order in which the flow system is assembled before the geometry update
PhaseAfter_assembleFirst(p) ==
  CASE p = "loop" -> "flow_assemble"
    [] p = "flow_assemble" -> "geometry"
    [] p = "geometry" -> "flow_solve"
    [] p = "flow_solve" -> "ht_assemble"
    [] p = "ht_assemble" -> "ht_solve"
    [] p = "ht_solve" -> "flowrate"
    [] p = "flowrate" -> "residual"
    [] OTHER -> "loop"

\* the order of the statements of the loop body (lines 938-1325)
PhaseAfter(p) ==
  CASE p = "loop" -> "geometry"
    [] p = "geometry" -> "flow_assemble"
    [] p = "flow_assemble" -> "flow_solve"
    [] p = "flow_solve" -> "ht_assemble"
    [] p = "ht_assemble" -> "ht_solve"
    [] p = "ht_solve" -> "flowrate"
    [] p = "flowrate" -> "residual"
    [] OTHER -> "loop"

\* a flow solve that leaves UM as it was
StoreFlow_stale(new, old) == old

\* line 1190: gmm::copy(U_new,UM)
StoreFlow(new, old) == new

\* a counter that is not advanced
NextIteration_stuck(i) == i

\* line 1285: iteration++
NextIteration(i) == i + 1

\* oncotic coefficient sigma*(Pi_v-Pi_t) of the flow-rate computation
picoef == 1

\* an assembler that resets the weights of the nodes it is given
NodesAfter_reset(L) == [k \in DOMAIN L |-> [L[k] EXCEPT !.value = 0]]

\* the node list L after assembly(): assembly_mat hands Jv_HT and
\* assembly_rhs hands BCv_HT to the junction and boundary assemblers, which
\* read them
NodesAfter(L) == L

\* the topology variables no statement of the solver names
meshvars ==
  <<pts, reg, nb_branches, regions, junctions, extrema, nb_extrema,
    nb_junctions, fer, cv, tpc, ub>>

\* a seed that is cleared and never scaled
Seed_cleared(H_start) == 0

\* lines 907-911: UM_HT is cleared, a vector of ones is added to it and it
\* is scaled by H_start: the seed of the hematocrit at every dof
Seed(H_start) == 1 * H_start

\* lines 733-935: declarations, the exchange auxiliary matrices, the copy of
\* the flow solution into U_old and the initial guess of the hematocrit
InitialGuess ==
  /\ spc = "entry"
  /\ \E x \in HematocritValues :
        /\ AM_HT' = assembly(UM, CSarea, Seed(H_START))
        /\ UM_HT' = x
        /\ H_old' = x
  /\ r_und' = Rv.r \div RScale
  /\ Mbar' = Rv
  /\ U_old' = UM
  /\ U_new' = ZeroFlow
  /\ iteration' = 0
  /\ RK' = TRUE
  /\ spc' = "loop"
  /\ BCv_HT' = NodesAfter(BCv_HT)
  /\ Jv_HT' = NodesAfter(Jv_HT)
  /\ UNCHANGED meshvars
  /\ cond' \in CondValues
  /\ UNCHANGED dvars
  /\ UNCHANGED pvars
  /\ UNCHANGED rvars
  /\ UNCHANGED evars
  /\ UNCHANGED <<Max_it, compliant, thick, alfa, UM, H_new, resSol, resCM, resH,
                 p_int, p_ext, Rv, CSarea, CSper, resistance_rvar, MU, AM, Bvv,
                 TFR, msg, ret>>

\* line 938: while(RK && iteration < max_iteration); the condition estimate
\* of the solve before it is read by no statement
LoopTest ==
  /\ spc = "loop"
  /\ spc' = IF RK /\ iteration < Max_it THEN PhaseAfter(spc) ELSE "exit"
  /\ UNCHANGED tvars
  /\ cond' = "none"
  /\ UNCHANGED dvars
  /\ UNCHANGED pvars
  /\ UNCHANGED rvars
  /\ UNCHANGED evars
  /\ UNCHANGED <<Max_it, compliant, thick, alfa, UM, U_old, U_new, UM_HT, H_old,
                 H_new, iteration, RK, resSol, resCM, resH, p_int, p_ext, Rv,
                 CSarea, CSper, r_und, resistance_rvar, Mbar, MU, AM, Bvv, TFR,
                 AM_HT, msg, ret>>

\* a call that passes the radius of the parameter store, rounded away from
\* the undeformed one to the unit length, instead of the captured copy
UndeformedRadius_current ==
  IF Rv.r > RScale * r_und THEN r_und + 1
  ELSE IF Rv.r < RScale * r_und THEN r_und - 1
  ELSE r_und

\* line 974: the radius argument of vessel_conductivity_vec is r_und, the
\* copy of param.R() taken at line 796
UndeformedRadius == r_und

\* lines 940-977: the radius-dependent blocks of AM and MU are cleared, the
\* pressures are taken from UM and, with compliant vessels, the geometry is
\* recomputed and written to the parameters
GeometryUpdate ==
  /\ spc = "geometry"
  /\ p_int' = UM.Pv
  /\ p_ext' = UM.Pt
  /\ IF COMPLIANT_VESSELS
     THEN LET g == vessel_conductivity_vec(UndeformedRadius, thick, UM.Pv, UM.Pt)
          IN /\ Rv' = g.R
             /\ CSarea' = g.area
             /\ CSper' = g.per
             /\ resistance_rvar' = g.cond
     ELSE UNCHANGED <<Rv, CSarea, CSper, resistance_rvar>>
  /\ AM' = ClearedAM
  /\ MU' = ClearedAM.mu
  /\ spc' = PhaseAfter(spc)
  /\ UNCHANGED tvars
  /\ UNCHANGED cond
  /\ UNCHANGED dvars
  /\ UNCHANGED pvars
  /\ UNCHANGED rvars
  /\ UNCHANGED evars
  /\ UNCHANGED <<Max_it, compliant, thick, alfa, UM, U_old, U_new, UM_HT, H_old,
                 H_new, iteration, RK, resSol, resCM, resH, r_und, Mbar, Bvv, TFR,
                 AM_HT, msg, ret>>

\* line 1112: the coefficient of Bvt and Bvv that asm_exchange_mat assembles
asm_exchange_mat == 1

\* gmm::clear(M) leaves no entry in M
gmm_clear(M) == 0

\* lines 986-1190: viscosity from the previous hematocrit iterate, then the
\* flow system from the parameters; the exchange matrices are cleared after
\* they have been added to the system (lines 1150-1153)
FlowAssemble ==
  /\ spc = "flow_assemble"
  /\ MU' = viscosity(MU, visco_v, H_old, Rv)
  /\ AM' = [area |-> CSarea, cond |-> FlowConductance, mu |-> viscosity(MU, visco_v, H_old, Rv),
            per |-> CSper, Mbar |-> Mbar]
  /\ Bvv' = gmm_clear(asm_exchange_mat)
  /\ spc' = PhaseAfter(spc)
  /\ UNCHANGED tvars
  /\ UNCHANGED cond
  /\ UNCHANGED dvars
  /\ UNCHANGED pvars
  /\ UNCHANGED rvars
  /\ UNCHANGED evars
  /\ UNCHANGED <<Max_it, compliant, thick, alfa, UM, U_old, U_new, UM_HT, H_old,
                 H_new, iteration, RK, resSol, resCM, resH, p_int, p_ext, Rv,
                 CSarea, CSper, r_und, resistance_rvar, Mbar, TFR, AM_HT, msg, ret>>

\* lines 1189-1190: the flow solve (problem3d1d::iteration_solve) gives the
\* new iterate, which is copied into UM
FlowSolve ==
  /\ spc = "flow_solve"
  /\ \E x \in FlowVectors :
        /\ U_new' = x
        /\ UM' = StoreFlow(x, UM)
  /\ spc' = PhaseAfter(spc)
  /\ UNCHANGED tvars
  /\ UNCHANGED cond
  /\ UNCHANGED dvars
  /\ UNCHANGED pvars
  /\ UNCHANGED rvars
  /\ UNCHANGED evars
  /\ UNCHANGED <<Max_it, compliant, thick, alfa, U_old, UM_HT, H_old, H_new,
                 iteration, RK, resSol, resCM, resH, p_int, p_ext, Rv, CSarea,
                 CSper, r_und, resistance_rvar, Mbar, MU, AM, Bvv, TFR, AM_HT,
                 msg, ret>>

\* line 1202: assembly() of the hematocrit system
HematocritAssemble ==
  /\ spc = "ht_assemble"
  /\ AM_HT' = assembly(UM, CSarea, UM_HT)
  /\ spc' = PhaseAfter(spc)
  /\ BCv_HT' = NodesAfter(BCv_HT)
  /\ Jv_HT' = NodesAfter(Jv_HT)
  /\ UNCHANGED meshvars
  /\ UNCHANGED cond
  /\ UNCHANGED dvars
  /\ UNCHANGED pvars
  /\ UNCHANGED rvars
  /\ UNCHANGED evars
  /\ UNCHANGED <<Max_it, compliant, thick, alfa, UM, U_old, U_new, UM_HT, H_old,
                 H_new, iteration, RK, resSol, resCM, resH, p_int, p_ext, Rv,
                 CSarea, CSper, r_und, resistance_rvar, Mbar, MU, AM, Bvv, TFR,
                 msg, ret>>

\* line 1205: H_new = iteration_solve(H_old, FM_HT)
HematocritSolve ==
  /\ spc = "ht_solve"
  /\ \E x \in HematocritValues : H_new' = iteration_solve(H_old, x)
  /\ spc' = PhaseAfter(spc)
  /\ UNCHANGED tvars
  /\ cond' \in CondValues
  /\ UNCHANGED dvars
  /\ UNCHANGED pvars
  /\ UNCHANGED rvars
  /\ UNCHANGED evars
  /\ UNCHANGED <<Max_it, compliant, thick, alfa, UM, U_old, U_new, UM_HT, H_old,
                 iteration, RK, resSol, resCM, resH, p_int, p_ext, Rv, CSarea,
                 CSper, r_und, resistance_rvar, Mbar, MU, AM, Bvv, TFR, AM_HT,
                 msg, ret>>

\* lines 1215-1248: total flow rate from the exchange matrices and the
\* pressures of the new iterate
\* a checkpoint test that looks at the iteration number alone
Checkpoint_always == iteration % Save_it = 0

\* line 1250: the test in front of export_vtk
Checkpoint ==
  RK /\ iteration < Max_it /\ print_res /\ iteration % Save_it = 0

FlowRate ==
  /\ spc = "flowrate"
  /\ TFR' = Bvv * U_new.Pt + Bvv * U_new.Pv - Bvv * picoef
  /\ spc' = PhaseAfter(spc)
  /\ UNCHANGED tvars
  /\ cond' = "none"
  /\ UNCHANGED dvars
  /\ UNCHANGED pvars
  /\ UNCHANGED rvars
  /\ exports' = IF Checkpoint THEN exports \cup {iteration} ELSE exports
  /\ UNCHANGED <<Save_it, print_res, H_START>>
  /\ UNCHANGED <<Max_it, compliant, thick, alfa, UM, U_old, U_new, UM_HT, H_old,
                 H_new, iteration, RK, resSol, resCM, resH, p_int, p_ext, Rv,
                 CSarea, CSper, r_und, resistance_rvar, Mbar, MU, AM, Bvv, AM_HT,
                 msg, ret>>

\* lines 1264-1325: the three residuals, the continuation flag, the counter,
\* and the new iterates become the previous ones
ResidualCheck ==
  /\ spc = "residual"
  /\ \E rs \in ResidualValues, acc \in {0 - 1, 0, 1} :
        LET rh == calcolo_Rk(H_new, H_old)
            rc == IF TFR # 0 THEN <<acc, TFR>> ELSE <<0, 1>>
        IN /\ resSol' = rs
           /\ resH' = rh
           /\ resCM' = rc
           /\ RK' = ContinueTest(rs, rc, rh)
  /\ iteration' = NextIteration(iteration)
  /\ U_old' = U_new
  /\ H_old' = H_new
  /\ UM_HT' = H_new
  /\ U_new' = ZeroFlow
  /\ H_new' = 0
  /\ p_int' = 0
  /\ p_ext' = 0
  /\ spc' = PhaseAfter(spc)
  /\ UNCHANGED tvars
  /\ UNCHANGED cond
  /\ UNCHANGED dvars
  /\ UNCHANGED pvars
  /\ UNCHANGED rvars
  /\ UNCHANGED evars
  /\ UNCHANGED <<Max_it, compliant, thick, alfa, UM, Rv, CSarea, CSper, r_und,
                 resistance_rvar, Mbar, MU, AM, Bvv, TFR, AM_HT, msg, ret>>

\* an exit that hands back the flow iterate U_new
ExitFlow_new == U_new

\* line 1339: gmm::copy(U_old,UM)
ExitFlow == U_old

\* lines 1339-1386: the last iterate is copied into UM, the message is
\* printed when the flag is still set, and true is returned
Exit ==
  /\ spc = "exit"
  /\ UM' = ExitFlow
  /\ msg' = RK
  /\ ret' = TRUE
  /\ spc' = "done"
  /\ UNCHANGED tvars
  /\ UNCHANGED cond
  /\ UNCHANGED dvars
  /\ UNCHANGED pvars
  /\ UNCHANGED rvars
  /\ UNCHANGED evars
  /\ UNCHANGED <<Max_it, compliant, thick, alfa, U_old, U_new, UM_HT, H_old,
                 H_new, iteration, RK, resSol, resCM, resH, p_int, p_ext, Rv,
                 CSarea, CSper, r_und, resistance_rvar, Mbar, MU, AM, Bvv, TFR,
                 AM_HT>>

NextFix ==
  \/ InitialGuess
  \/ LoopTest
  \/ GeometryUpdate
  \/ FlowAssemble
  \/ FlowSolve
  \/ HematocritAssemble
  \/ HematocritSolve
  \/ FlowRate
  \/ ResidualCheck
  \/ Exit

SpecFix == InitFix /\ [][NextFix]_vars

\* the statements of solve_fixpoint run one after the other until it returns
SpecFixLive == SpecFix /\ WF_vars(NextFix)

(***************************************************************************)
(* solve_fixpoint on a rigid network, for every checkpoint interval and    *)
(* both values of print_residual.                                          *)
(***************************************************************************)
InitExport ==
  /\ TopologyBuilt
  /\ Max_it = MaxIt + 1
  /\ compliant = FALSE
  /\ thick = 2
  /\ alfa = <<1, 1>>
  /\ UM = ZeroFlow
  /\ U_old = ZeroFlow
  /\ U_new = ZeroFlow
  /\ UM_HT = 0
  /\ H_old = 0
  /\ H_new = 0
  /\ iteration = 0
  /\ RK = TRUE
  /\ resSol = <<100 * epsSol[1], epsSol[2]>>
  /\ resCM = <<100 * epsCM[1], epsCM[2]>>
  /\ resH = <<100 * epsH[1], epsH[2]>>
  /\ p_int = 0
  /\ p_ext = 0
  /\ Rv = Circle(RScale * Ru0)
  /\ CSarea = CircleArea(RScale * Ru0)
  /\ CSper = CirclePer(RScale * Ru0)
  /\ r_und = Ru0
  /\ resistance_rvar = PoiseuilleCond(CircleArea(0), Circle(0))
  /\ Mbar = Circle(0)
  /\ MU = [kind |-> "none", h |-> 0, d |-> Circle(0)]
  /\ AM = ClearedAM
  /\ Bvv = 0
  /\ TFR = 0
  /\ AM_HT = [Uv |-> 0, area |-> CircleArea(0), H |-> 0]
  /\ cond = "none"
  /\ msg = FALSE
  /\ ret = FALSE
  /\ spc = "entry"
  /\ DiffusivityNotStarted
  /\ RelaxNotStarted
  /\ Save_it \in 1 .. MaxIt
  /\ print_res \in BOOLEAN
  /\ H_START = 1
  /\ NoExport
  /\ BuildNotStarted
  /\ visco_v = 0

SpecExport == InitExport /\ [][NextFix]_vars

(***************************************************************************)
(* solve_fixpoint on a rigid network, for every hematocrit start value,    *)
(* every flow solution on entry and every maximum number of iterations.    *)
(***************************************************************************)
InitSeed ==
  /\ TopologyBuilt
  /\ Max_it \in 0 .. MaxIt
  /\ compliant = FALSE
  /\ thick = 2
  /\ alfa = <<1, 1>>
  /\ UM \in FlowVectors
  /\ U_old = ZeroFlow
  /\ U_new = ZeroFlow
  /\ UM_HT = 0
  /\ H_old = 0
  /\ H_new = 0
  /\ iteration = 0
  /\ RK = TRUE
  /\ resSol = <<100 * epsSol[1], epsSol[2]>>
  /\ resCM = <<100 * epsCM[1], epsCM[2]>>
  /\ resH = <<100 * epsH[1], epsH[2]>>
  /\ p_int = 0
  /\ p_ext = 0
  /\ Rv = Circle(RScale * Ru0)
  /\ CSarea = CircleArea(RScale * Ru0)
  /\ CSper = CirclePer(RScale * Ru0)
  /\ r_und = Ru0
  /\ resistance_rvar = PoiseuilleCond(CircleArea(0), Circle(0))
  /\ Mbar = Circle(0)
  /\ MU = [kind |-> "none", h |-> 0, d |-> Circle(0)]
  /\ AM = ClearedAM
  /\ Bvv = 0
  /\ TFR = 0
  /\ AM_HT = [Uv |-> 0, area |-> CircleArea(0), H |-> 0]
  /\ cond = "none"
  /\ msg = FALSE
  /\ ret = FALSE
  /\ spc = "entry"
  /\ DiffusivityNotStarted
  /\ RelaxNotStarted
  /\ Save_it = 1
  /\ print_res = TRUE
  /\ H_START \in HematocritValues
  /\ NoExport
  /\ BuildNotStarted
  /\ visco_v = 0

SpecSeed == InitSeed /\ [][NextFix]_vars

(***************************************************************************)
(* vessel_conductivity_vec on its own: the call of line 974 made twice in  *)
(* a row with the same pressures, on parameters that hold the geometry     *)
(* some earlier call left.                                                 *)
(***************************************************************************)
\* the pressure pairs of the calls
VesselPressures == [int : 0 .. 1, ext : 0 .. (MaxP + 2)]

InitVessel ==
  /\ TopologyBuilt
  /\ Max_it = 0
  /\ compliant = TRUE
  /\ thick \in {1, 2}
  /\ alfa = <<1, 1>>
  /\ UM = ZeroFlow
  /\ U_old = ZeroFlow
  /\ U_new = ZeroFlow
  /\ UM_HT = 0
  /\ H_old = 0
  /\ H_new = 0
  /\ iteration = 0
  /\ RK = TRUE
  /\ resSol = <<100 * epsSol[1], epsSol[2]>>
  /\ resCM = <<100 * epsCM[1], epsCM[2]>>
  /\ resH = <<100 * epsH[1], epsH[2]>>
  /\ \E q \in VesselPressures : p_int = q.int /\ p_ext = q.ext
  /\ r_und = Ru0
  /\ \E q \in VesselPressures :
        LET g == vessel_conductivity_vec(Ru0, thick, q.int, q.ext)
        IN /\ Rv = g.R
           /\ CSarea = g.area
           /\ CSper = g.per
           /\ resistance_rvar = g.cond
  /\ Mbar = Circle(RScale * Ru0)
  /\ MU = ClearedAM.mu
  /\ AM = ClearedAM
  /\ Bvv = 0
  /\ TFR = 0
  /\ AM_HT = [Uv |-> 0, area |-> CircleArea(0), H |-> 0]
  /\ cond = "none"
  /\ msg = FALSE
  /\ ret = FALSE
  /\ spc = "vessel_call"
  /\ DiffusivityNotStarted
  /\ RelaxNotStarted
  /\ Save_it = 1
  /\ print_res = TRUE
  /\ H_START = 1
  /\ NoExport
  /\ BuildNotStarted
  /\ visco_v = 0

\* line 974 with lines 1430-1522: one call of vessel_conductivity_vec
VesselCall ==
  /\ spc \in {"vessel_call", "vessel_called"}
  /\ LET g == vessel_conductivity_vec(UndeformedRadius, thick, p_int, p_ext)
     IN /\ Rv' = g.R
        /\ CSarea' = g.area
        /\ CSper' = g.per
        /\ resistance_rvar' = g.cond
  /\ spc' = IF spc = "vessel_call" THEN "vessel_called" ELSE "vessel_done"
  /\ UNCHANGED tvars
  /\ UNCHANGED dvars
  /\ UNCHANGED pvars
  /\ UNCHANGED rvars
  /\ UNCHANGED evars
  /\ UNCHANGED <<Max_it, compliant, thick, alfa, UM, U_old, U_new, UM_HT, H_old,
                 H_new, iteration, RK, resSol, resCM, resH, p_int, p_ext, r_und,
                 Mbar, MU, AM, Bvv, TFR, AM_HT, cond, msg, ret>>

NextVessel == VesselCall

SpecVessel == InitVessel /\ [][NextVessel]_vars

(***************************************************************************)
(* The artificial diffusivity of assembly_mat, lines 450-509, for the      *)
(* network of TopologyBuilt: every branch has two velocity dofs.           *)
(***************************************************************************)
Max(S) == CHOOSE x \in S : \A y \in S : y <= x
Min(S) == CHOOSE x \in S : \A y \in S : x <= y

\* lines 496-502: the largest absolute velocity of the dofs U
max_U(U) ==
  LET max_U_positive == Max({U[k] : k \in DOMAIN U})
      max_U_negative == Min({U[k] : k \in DOMAIN U})
  IN IF max_U_positive > Abs(max_U_negative) THEN max_U_positive
     ELSE Abs(max_U_negative)

\* lines 482-485: max_size after the sizes of the convexes of branch b have
\* been compared with it
SizeAfterBranch(m, b) ==
  Max({m} \cup {convex_size[k] : k \in {c \in Convexes : is_in(b, c)}})

InitDiffusivity ==
  /\ TopologyBuilt
  /\ SolverNotStarted
  /\ convex_size \in [DOMAIN pts -> 1 .. MaxSize]
  /\ Uvi \in [0 .. (nb_branches - 1) -> [1 .. 2 -> (0 - MaxVel) .. MaxVel]]
  /\ Theta \in 1 .. 2
  /\ ib = 0
  /\ max_size = 0
  /\ max_product = 0
  /\ Diffusivity = <<0, 1>>
  /\ mf_Hi = <<>>
  /\ shift_H = 0
  /\ dpc = "branches"
  /\ BuildNotStarted
  /\ RelaxNotStarted
  /\ Save_it = 1
  /\ print_res = TRUE
  /\ H_START = 1
  /\ NoExport
  /\ visco_v = 0

\* lines 476-508: one pass of the loop over the branches
DiffusivityBranch ==
  /\ dpc = "branches"
  /\ ib < nb_branches
  /\ LET size == SizeAfterBranch(max_size, ib)
         temp == max_U(Uvi[ib]) * size
     IN /\ max_size' = size
        /\ max_product' = IF temp > max_product THEN temp ELSE max_product
  /\ ib' = ib + 1
  /\ UNCHANGED <<convex_size, Uvi, Theta, Diffusivity, mf_Hi, shift_H, dpc>>
  /\ UNCHANGED <<tvars, svars, pvars, rvars, evars>>

\* line 509: Diffusivity = max_product * Theta/2
DiffusivityEnd ==
  /\ dpc = "branches"
  /\ ib >= nb_branches
  /\ Diffusivity' = Fraction(max_product * Theta, 2)
  /\ dpc' = "done"
  /\ UNCHANGED <<convex_size, Uvi, Theta, ib, max_size, max_product, mf_Hi,
                 shift_H>>
  /\ UNCHANGED <<tvars, svars, pvars, rvars, evars>>

NextDiffusivity == DiffusivityBranch \/ DiffusivityEnd

SpecDiffusivity == InitDiffusivity /\ [][NextDiffusivity]_vars

(***************************************************************************)
(* The viscosity of every element, solve_fixpoint lines 1000-1029, for the *)
(* network of TopologyBuilt; MU holds one coefficient for each element.    *)
(***************************************************************************)
Radii == 1 .. MaxRad

InitViscosity ==
  /\ TopologyBuilt
  /\ Max_it = 0
  /\ compliant = FALSE
  /\ thick = 0
  /\ alfa = <<1, 1>>
  /\ UM = ZeroFlow
  /\ U_old = ZeroFlow
  /\ U_new = ZeroFlow
  /\ UM_HT = 0
  /\ H_old = 0
  /\ H_new = 0
  /\ iteration = 0
  /\ RK = TRUE
  /\ resSol = <<0, 1>>
  /\ resCM = <<0, 1>>
  /\ resH = <<0, 1>>
  /\ p_int = 0
  /\ p_ext = 0
  /\ Rv = Circle(RScale * Ru0)
  /\ CSarea = CircleArea(RScale * Ru0)
  /\ CSper = CirclePer(RScale * Ru0)
  /\ r_und = Ru0
  /\ resistance_rvar = PoiseuilleCond(CircleArea(0), Circle(0))
  /\ Mbar = Circle(0)
  /\ MU = [c \in DOMAIN pts |-> ClearedAM.mu]
  /\ AM = ClearedAM
  /\ Bvv = 0
  /\ TFR = 0
  /\ AM_HT = [Uv |-> 0, area |-> CircleArea(0), H |-> 0]
  /\ cond = "none"
  /\ msg = FALSE
  /\ ret = FALSE
  /\ spc = "visco_call"
  /\ DiffusivityNotStarted
  /\ RelaxNotStarted
  /\ Save_it = 1
  /\ print_res = TRUE
  /\ H_START = 1
  /\ NoExport
  /\ visco_v \in 0 .. 2
  /\ H_const \in [DOMAIN pts -> HematocritValues]
  /\ R_ \in [DOMAIN pts -> Radii]
  /\ thick_ = <<>>
  /\ CSarea_ = <<>>
  /\ CSper_ = <<>>
  /\ THICKFILE = [open |-> FALSE]
  /\ cerr = 0
  /\ E_vec_ = Ei
  /\ IMPORT_RADIUS = TRUE

\* lines 985-1029: the loop over the branches and over their elements
ViscosityUpdate ==
  /\ spc = "visco_call"
  /\ MU' = [muu \in Convexes |->
              IF \E i \in 0 .. (nb_branches - 1) : is_in(i, muu)
              THEN viscosity(MU[muu], visco_v, H_const[muu], Circle(R_[muu]))
              ELSE MU[muu]]
  /\ cerr' = IF visco_v \in {0, 1} THEN cerr ELSE cerr + nb_branches
  /\ spc' = "visco_done"
  /\ UNCHANGED tvars
  /\ UNCHANGED dvars
  /\ UNCHANGED <<visco_v, H_const, R_, thick_, CSarea_, CSper_, THICKFILE, E_vec_,
                 IMPORT_RADIUS>>
  /\ UNCHANGED rvars
  /\ UNCHANGED evars
  /\ UNCHANGED <<Max_it, compliant, thick, alfa, UM, U_old, U_new, UM_HT, H_old,
                 H_new, iteration, RK, resSol, resCM, resH, p_int, p_ext, Rv,
                 CSarea, CSper, r_und, resistance_rvar, Mbar, AM, Bvv, TFR,
                 AM_HT, cond, msg, ret>>

NextViscosity == ViscosityUpdate

SpecViscosity == InitViscosity /\ [][NextViscosity]_vars

(***************************************************************************)
(* param3d1d::build, lines 176-203: the radius has been imported, one      *)
(* value for each vessel data dof; the thickness file may fail to open.    *)
(***************************************************************************)
\* mf_datav_.nb_dof(): one data dof for each element
dof_datav == Cardinality(DOMAIN pts)

\* the thickness file: unreadable, or one value for each data dof
ThickFiles ==
  {[open |-> FALSE]}
    \cup {[open |-> TRUE, data |-> f] : f \in [0 .. (dof_datav - 1) -> 1 .. 2]}

\* a default that ignores the radius
DefaultThickness_constant(r) == Fraction(2, 10)

\* line 193: R_[i] * 0.2
DefaultThickness(r) == Fraction(2 * r, 10)

InitBuild ==
  /\ TopologyBuilt
  /\ Max_it = 0
  /\ compliant = FALSE
  /\ thick = 0
  /\ alfa = <<1, 1>>
  /\ UM = ZeroFlow
  /\ U_old = ZeroFlow
  /\ U_new = ZeroFlow
  /\ UM_HT = 0
  /\ H_old = 0
  /\ H_new = 0
  /\ iteration = 0
  /\ RK = TRUE
  /\ resSol = <<0, 1>>
  /\ resCM = <<0, 1>>
  /\ resH = <<0, 1>>
  /\ p_int = 0
  /\ p_ext = 0
  /\ Rv = Circle(RScale * Ru0)
  /\ CSarea = CircleArea(RScale * Ru0)
  /\ CSper = CirclePer(RScale * Ru0)
  /\ r_und = Ru0
  /\ resistance_rvar = PoiseuilleCond(CircleArea(0), Circle(0))
  /\ Mbar = Circle(0)
  /\ MU = [kind |-> "none", h |-> 0, d |-> Circle(0)]
  /\ AM = ClearedAM
  /\ Bvv = 0
  /\ TFR = 0
  /\ AM_HT = [Uv |-> 0, area |-> CircleArea(0), H |-> 0]
  /\ cond = "none"
  /\ msg = FALSE
  /\ ret = FALSE
  /\ spc = "build_thick"
  /\ DiffusivityNotStarted
  /\ RelaxNotStarted
  /\ Save_it = 1
  /\ print_res = TRUE
  /\ H_START = 1
  /\ NoExport
  /\ visco_v = 0
  /\ H_const = <<>>
  /\ R_ \in [0 .. (dof_datav - 1) -> Radii]
  /\ thick_ = <<>>
  /\ CSarea_ = <<>>
  /\ CSper_ = <<>>
  /\ THICKFILE \in ThickFiles
  /\ cerr = 0
  /\ E_vec_ = Ei
  /\ IMPORT_RADIUS = TRUE

\* lines 187-195: the thickness, from the file or from the radius
BuildThickness ==
  /\ spc = "build_thick"
  /\ IF ~THICKFILE.open
     THEN /\ cerr' = cerr + 1
          /\ thick_' = [i \in 0 .. (dof_datav - 1) |->
                          IF i < Cardinality(DOMAIN R_)
                          THEN DefaultThickness(R_[i]) ELSE <<0, 1>>]
     ELSE /\ cerr' = cerr
          /\ thick_' = [i \in 0 .. (dof_datav - 1) |-> <<THICKFILE.data[i], 1>>]
  /\ spc' = "build_sections"
  /\ UNCHANGED tvars
  /\ UNCHANGED dvars
  /\ UNCHANGED <<visco_v, H_const, R_, CSarea_, CSper_, THICKFILE, E_vec_,
                 IMPORT_RADIUS>>
  /\ UNCHANGED rvars
  /\ UNCHANGED evars
  /\ UNCHANGED <<Max_it, compliant, thick, alfa, UM, U_old, U_new, UM_HT, H_old,
                 H_new, iteration, RK, resSol, resCM, resH, p_int, p_ext, Rv,
                 CSarea, CSper, r_und, resistance_rvar, Mbar, MU, AM, Bvv, TFR,
                 AM_HT, cond, msg, ret>>

\* lines 197-203: cross section area and perimeter of every data dof
BuildSections ==
  /\ spc = "build_sections"
  /\ CSarea_' = [i \in 0 .. (dof_datav - 1) |-> CircleArea(R_[i])]
  /\ CSper_' = [i \in 0 .. (dof_datav - 1) |-> CirclePer(R_[i])]
  /\ spc' = "build_done"
  /\ UNCHANGED tvars
  /\ UNCHANGED dvars
  /\ UNCHANGED <<visco_v, H_const, R_, thick_, THICKFILE, E_vec_, IMPORT_RADIUS,
                 cerr>>
  /\ UNCHANGED rvars
  /\ UNCHANGED evars
  /\ UNCHANGED <<Max_it, compliant, thick, alfa, UM, U_old, U_new, UM_HT, H_old,
                 H_new, iteration, RK, resSol, resCM, resH, p_int, p_ext, Rv,
                 CSarea, CSper, r_und, resistance_rvar, Mbar, MU, AM, Bvv, TFR,
                 AM_HT, cond, msg, ret>>

NextBuild == BuildThickness \/ BuildSections

SpecBuild == InitBuild /\ [][NextBuild]_vars

(***************************************************************************)
(* param3d1d::build from the test of IMPORT_RADIUS on: the radius is a     *)
(* constant, or it is imported and the thickness and the cross sections    *)
(* follow.                                                                 *)
(***************************************************************************)
InitBuildRadius ==
  /\ TopologyBuilt
  /\ Max_it = 0
  /\ compliant = FALSE
  /\ thick = 0
  /\ alfa = <<1, 1>>
  /\ UM = ZeroFlow
  /\ U_old = ZeroFlow
  /\ U_new = ZeroFlow
  /\ UM_HT = 0
  /\ H_old = 0
  /\ H_new = 0
  /\ iteration = 0
  /\ RK = TRUE
  /\ resSol = <<0, 1>>
  /\ resCM = <<0, 1>>
  /\ resH = <<0, 1>>
  /\ p_int = 0
  /\ p_ext = 0
  /\ Rv = Circle(RScale * Ru0)
  /\ CSarea = CircleArea(RScale * Ru0)
  /\ CSper = CirclePer(RScale * Ru0)
  /\ r_und = Ru0
  /\ resistance_rvar = PoiseuilleCond(CircleArea(0), Circle(0))
  /\ Mbar = Circle(0)
  /\ MU = [kind |-> "none", h |-> 0, d |-> Circle(0)]
  /\ AM = ClearedAM
  /\ Bvv = 0
  /\ TFR = 0
  /\ AM_HT = [Uv |-> 0, area |-> CircleArea(0), H |-> 0]
  /\ cond = "none"
  /\ msg = FALSE
  /\ ret = FALSE
  /\ spc = "build_radius"
  /\ DiffusivityNotStarted
  /\ RelaxNotStarted
  /\ Save_it = 1
  /\ print_res = TRUE
  /\ H_START = 1
  /\ NoExport
  /\ visco_v = 0
  /\ H_const = <<>>
  /\ R_ = <<>>
  /\ thick_ = <<>>
  /\ CSarea_ = <<>>
  /\ CSper_ = <<>>
  /\ THICKFILE \in ThickFiles
  /\ cerr = 0
  /\ E_vec_ = Ei
  /\ IMPORT_RADIUS \in BOOLEAN

\* R_.assign(dof_datav, Rav_)
assign(n, value) == [i \in 0 .. (n - 1) |-> value]

\* lines 167-180: the radius of every data dof, constant or from RFILE
BuildRadius ==
  /\ spc = "build_radius"
  /\ IF ~IMPORT_RADIUS
     THEN /\ \E Rav_ \in Radii : R_' = assign(dof_datav, Rav_)
          /\ spc' = "build_done"
     ELSE /\ R_' \in [0 .. (dof_datav - 1) -> Radii]
          /\ spc' = "build_thick"
  /\ UNCHANGED <<visco_v, H_const, thick_, CSarea_, CSper_, THICKFILE, E_vec_,
                 IMPORT_RADIUS, cerr>>
  /\ UNCHANGED tvars
  /\ UNCHANGED dvars
  /\ UNCHANGED rvars
  /\ UNCHANGED evars
  /\ UNCHANGED <<Max_it, compliant, thick, alfa, UM, U_old, U_new, UM_HT, H_old,
                 H_new, iteration, RK, resSol, resCM, resH, p_int, p_ext, Rv,
                 CSarea, CSper, r_und, resistance_rvar, Mbar, MU, AM, Bvv, TFR,
                 AM_HT, cond, msg, ret>>

NextBuildRadius == BuildRadius \/ BuildThickness \/ BuildSections

SpecBuildRadius == InitBuildRadius /\ [][NextBuildRadius]_vars

(***************************************************************************)
(* One call H_new = iteration_solve(H_old, FM_HT), lines 643-671 and 1205, *)
(* on one coefficient, in exact fractions <<numerator, denominator>>.      *)
(***************************************************************************)
\* the relaxation factors k/MaxAlfa, up to 1
RelaxFactors == {Fraction(k, MaxAlfa) : k \in 1 .. MaxAlfa}

\* the values a coefficient of the hematocrit takes: quarters up to MaxH
RelaxValues == {Fraction(k, 4) : k \in 0 .. (4 * MaxH)}

\* gmm::scale(V, a) leaves a*V in V
gmm_scale(V, a) == Fraction(V[1] * a[1], V[2] * a[2])

\* an addition that leaves V2 as it was
gmm_add_lost(V1, V2) == V2

\* gmm::add(V1, V2) leaves V1 + V2 in V2
gmm_add(V1, V2) == Fraction(V1[1] * V2[2] + V2[1] * V1[2], V1[2] * V2[2])

\* lines 660-666: the under-relaxation; gives what is left in U_new and in U_O
under_relaxation(x, U_Oin, a) ==
  IF a # <<1, 1>>
  THEN LET one_a == Fraction(a[2] - a[1], a[2])
           U_new1 == gmm_scale(x, a)
           U_O1 == gmm_scale(U_Oin, one_a)
           U_new2 == gmm_add(U_O1, U_new1)
           U_O2 == gmm_scale(U_O1, <<one_a[2], one_a[1]>>)
       IN [U_new |-> U_new2, U_O |-> U_O2]
  ELSE [U_new |-> x, U_O |-> U_Oin]

InitRelax ==
  /\ TopologyBuilt
  /\ Max_it = 0
  /\ compliant = FALSE
  /\ thick = 0
  /\ alfa \in RelaxFactors
  /\ UM = ZeroFlow
  /\ U_old = ZeroFlow
  /\ U_new = ZeroFlow
  /\ UM_HT = 0
  /\ H_old \in RelaxValues
  /\ H_new = <<0, 1>>
  /\ iteration = 0
  /\ RK = TRUE
  /\ resSol = <<0, 1>>
  /\ resCM = <<0, 1>>
  /\ resH = <<0, 1>>
  /\ p_int = 0
  /\ p_ext = 0
  /\ Rv = Circle(RScale * Ru0)
  /\ CSarea = CircleArea(RScale * Ru0)
  /\ CSper = CirclePer(RScale * Ru0)
  /\ r_und = Ru0
  /\ resistance_rvar = PoiseuilleCond(CircleArea(0), Circle(0))
  /\ Mbar = Circle(0)
  /\ MU = [kind |-> "none", h |-> 0, d |-> Circle(0)]
  /\ AM = ClearedAM
  /\ Bvv = 0
  /\ TFR = 0
  /\ AM_HT = [Uv |-> 0, area |-> CircleArea(0), H |-> 0]
  /\ cond = "none"
  /\ msg = FALSE
  /\ ret = FALSE
  /\ spc = "relax_call"
  /\ DiffusivityNotStarted
  /\ BuildNotStarted
  /\ visco_v = 0
  /\ x_sol \in RelaxValues
  /\ U_O_arg = <<0, 1>>
  /\ Save_it = 1
  /\ print_res = TRUE
  /\ H_START = 1
  /\ NoExport

\* line 1205: the call; U_O is passed by value, the result is assigned to H_new
IterationSolve ==
  /\ spc = "relax_call"
  /\ LET r == under_relaxation(x_sol, H_old, alfa)
     IN /\ H_new' = r.U_new
        /\ U_O_arg' = r.U_O
  /\ spc' = "relax_done"
  /\ UNCHANGED x_sol
  /\ UNCHANGED tvars
  /\ UNCHANGED dvars
  /\ UNCHANGED pvars
  /\ UNCHANGED evars
  /\ UNCHANGED <<Max_it, compliant, thick, alfa, UM, U_old, U_new, UM_HT, H_old,
                 iteration, RK, resSol, resCM, resH, p_int, p_ext, Rv, CSarea,
                 CSper, r_und, resistance_rvar, Mbar, MU, AM, Bvv, TFR, AM_HT,
                 cond, msg, ret>>

NextRelax == IterationSolve

SpecRelax == InitRelax /\ [][NextRelax]_vars

(***************************************************************************)
(* One call of vessel_conductivity_vec on a branch whose Young modulus is  *)
(* imported (IMPORT_E, line 1455), for the choice of the regime.           *)
(***************************************************************************)
\* the Young moduli of a branch: the one of the parameter file, and a third more
YoungModuli == {Ei, (4 * Ei) \div 3}

InitRegime ==
  /\ TopologyBuilt
  /\ Max_it = 0
  /\ compliant = TRUE
  /\ thick \in 1 .. 3
  /\ alfa = <<1, 1>>
  /\ UM = ZeroFlow
  /\ U_old = ZeroFlow
  /\ U_new = ZeroFlow
  /\ UM_HT = 0
  /\ H_old = 0
  /\ H_new = 0
  /\ iteration = 0
  /\ RK = TRUE
  /\ resSol = <<100 * epsSol[1], epsSol[2]>>
  /\ resCM = <<100 * epsCM[1], epsCM[2]>>
  /\ resH = <<100 * epsH[1], epsH[2]>>
  /\ \E q \in VesselPressures : p_int = q.int /\ p_ext = q.ext
  /\ r_und = Ru0
  /\ Rv = Circle(RScale * Ru0)
  /\ CSarea = CircleArea(RScale * Ru0)
  /\ CSper = CirclePer(RScale * Ru0)
  /\ resistance_rvar = PoiseuilleCond(CircleArea(0), Circle(0))
  /\ Mbar = Circle(RScale * Ru0)
  /\ MU = ClearedAM.mu
  /\ AM = ClearedAM
  /\ Bvv = 0
  /\ TFR = 0
  /\ AM_HT = [Uv |-> 0, area |-> CircleArea(0), H |-> 0]
  /\ cond = "none"
  /\ msg = FALSE
  /\ ret = FALSE
  /\ spc = "regime_call"
  /\ DiffusivityNotStarted
  /\ RelaxNotStarted
  /\ Save_it = 1
  /\ print_res = TRUE
  /\ H_START = 1
  /\ NoExport
  /\ H_const = <<>>
  /\ R_ = <<>>
  /\ thick_ = <<>>
  /\ CSarea_ = <<>>
  /\ CSper_ = <<>>
  /\ THICKFILE = [open |-> FALSE]
  /\ cerr = 0
  /\ E_vec_ \in YoungModuli
  /\ IMPORT_RADIUS = TRUE
  /\ visco_v = 0

\* lines 1455-1520: the call, for one degree of freedom of the branch
RegimeCall ==
  /\ spc = "regime_call"
  /\ LET g == vessel_conductivity_E(E_vec_, r_und, thick, p_int, p_ext)
     IN /\ Rv' = g.R
        /\ CSarea' = g.area
        /\ CSper' = g.per
        /\ resistance_rvar' = g.cond
  /\ spc' = "regime_done"
  /\ UNCHANGED tvars
  /\ UNCHANGED dvars
  /\ UNCHANGED pvars
  /\ UNCHANGED rvars
  /\ UNCHANGED evars
  /\ UNCHANGED <<Max_it, compliant, thick, alfa, UM, U_old, U_new, UM_HT, H_old,
                 H_new, iteration, RK, resSol, resCM, resH, p_int, p_ext, r_und,
                 Mbar, MU, AM, Bvv, TFR, AM_HT, cond, msg, ret>>

NextRegime == RegimeCall

SpecRegime == InitRegime /\ [][NextRegime]_vars

(***************************************************************************)
(* problemHT::assembly: the matrix AM_HT and the right-hand side FM_HT of  *)
(* the hematocrit system. Here AM_HT is the pair of the two: AM maps each  *)
(* index pair <<row, column>> to the list of the terms added to that       *)
(* entry, FM maps each index to the list of the terms added to it. A term  *)
(* names the local matrix it comes from, the branch, and its value.        *)
(***************************************************************************)
\* the sum of the hematocrit dof counts of the branches in front of branch i
RECURSIVE SumDofs(_)
SumDofs(i) == IF i = 0 THEN 0 ELSE SumDofs(i - 1) + mf_Hi[i - 1]

\* dofHT.H(): the hematocrit unknowns are the dofs of the branches, one
\* branch after the other
dofHT_H == SumDofs(nb_branches)

\* gmm::sub_interval(first, length)
sub_interval(first, length) == first .. (first + length - 1)

\* a matrix and a vector that hold no term
ClearedMatrix(n) == [e \in (0 .. (n - 1)) \X (0 .. (n - 1)) |-> <<>>]
ClearedVector(n) == [k \in 0 .. (n - 1) |-> <<>>]

\* a resize that is not followed by the clear: the entries inside the new
\* size keep their terms
resize_clear_kept(M, n) ==
  [e \in (0 .. (n - 1)) \X (0 .. (n - 1)) |-> IF e \in DOMAIN M THEN M[e] ELSE <<>>]

\* line 430: gmm::resize(AM_HT, dofHT.H(), dofHT.H()); gmm::clear(AM_HT)
resize_clear(M, n) == ClearedMatrix(n)

\* gmm::add(T, gmm::sub_matrix(M, rows, cols)) for a local matrix whose
\* entries all hold the term t
add_sub_matrix(t, M, rows, cols) ==
  [e \in DOMAIN M |-> IF e[1] \in rows /\ e[2] \in cols THEN Append(M[e], t) ELSE M[e]]

\* the add for a vector
add_sub_vector(t, V, rows) ==
  [k \in DOMAIN V |-> IF k \in rows THEN Append(V[k], t) ELSE V[k]]

\* a shift that is not advanced
ShiftAfter_stuck(shift, i) == shift

\* line 534: if(i>0) shift_H += mf_Hi[i-1].nb_dof()
ShiftAfter(shift, i) == IF i > 0 THEN shift + mf_Hi[i - 1] ELSE shift

\* lines 558-576: Bhi, the advection matrix of branch i built from the
\* velocity of UM, scaled by -1; Dhi, the diffusion matrix built from the
\* artificial diffusivity
Bhi(i) == [m |-> "Bhi", i |-> i, v |-> <<0 - UM.Uv, 1>>]
Dhi(i) == [m |-> "Dhi", i |-> i, v |-> Diffusivity]

\* lines 579-589: Bhi and Dhi are added to the block of branch i
BlockAdded(M, i, shift) ==
  LET block == sub_interval(shift, mf_Hi[i])
  IN add_sub_matrix(Dhi(i), add_sub_matrix(Bhi(i), M, block, block), block, block)

\* the dofs of the junction node and of the two boundary nodes of the mesh
JunctionDofs == {SumDofs(1) - 1, SumDofs(1)}
BoundaryDofs == {0, dofHT_H - 1}

\* lines 597-606 and 634: the outflow terms, the junction matrix Jh built
\* from the velocity and from the hematocrit UM_HT, and the boundary terms
\* are added to AM_HT; the boundary terms are added to FM_HT
TermsAdded(S) ==
  LET all == sub_interval(0, dofHT_H)
      out == [m |-> "out", i |-> 0, v |-> <<UM.Uv, 1>>]
      Jh == [m |-> "Jh", i |-> 0, v |-> <<UM.Uv * UM_HT, 1>>]
      bc == [m |-> "bc", i |-> 0, v |-> <<UM.Uv, 1>>]
      M1 == add_sub_matrix(out, S.AM, BoundaryDofs, BoundaryDofs)
      M2 == add_sub_matrix(Jh, M1, JunctionDofs, all)
      M3 == add_sub_matrix(bc, M2, BoundaryDofs, BoundaryDofs)
  IN [AM |-> M3, FM |-> add_sub_vector(bc, S.FM, BoundaryDofs)]

\* what AM_HT and FM_HT may hold when assembly() is called: nothing, or
\* the terms of an earlier system of some size
PriorSystems ==
  {[AM |-> ClearedMatrix(0), FM |-> ClearedVector(0)]} \cup
  {[AM |-> [e \in (0 .. (n - 1)) \X (0 .. (n - 1)) |-> <<[m |-> "Jh", i |-> 0, v |-> <<1, 1>>]>>],
    FM |-> [k \in 0 .. (n - 1) |-> <<[m |-> "bc", i |-> 0, v |-> <<1, 1>>]>>]] :
     n \in {nb_branches * MaxDof}}

InitAssembly ==
  /\ TopologyBuilt
  /\ Max_it = MaxIt
  /\ compliant = FALSE
  /\ thick = 2
  /\ alfa = <<1, 1>>
  /\ UM \in {U \in FlowVectors : U.Pt = 0 /\ U.Pv = 0}
  /\ U_old = ZeroFlow
  /\ U_new = ZeroFlow
  /\ UM_HT \in HematocritValues
  /\ H_old = UM_HT
  /\ H_new = 0
  /\ iteration = 0
  /\ RK = TRUE
  /\ resSol = <<100 * epsSol[1], epsSol[2]>>
  /\ resCM = <<100 * epsCM[1], epsCM[2]>>
  /\ resH = <<100 * epsH[1], epsH[2]>>
  /\ p_int = 0
  /\ p_ext = 0
  /\ Rv = Circle(RScale * Ru0)
  /\ CSarea = CircleArea(RScale * Ru0)
  /\ CSper = CirclePer(RScale * Ru0)
  /\ r_und = Ru0
  /\ resistance_rvar = PoiseuilleCond(CircleArea(0), Circle(0))
  /\ Mbar = Circle(0)
  /\ MU = [kind |-> "none", h |-> 0, d |-> Circle(0)]
  /\ AM = ClearedAM
  /\ Bvv = 0
  /\ TFR = 0
  /\ AM_HT \in PriorSystems
  /\ cond = "none"
  /\ msg = FALSE
  /\ ret = FALSE
  /\ spc = "ht_assemble"
  /\ convex_size = <<>>
  /\ Uvi = <<>>
  /\ Theta = 0
  /\ ib = 0
  /\ max_size = 0
  /\ max_product = 0
  /\ Diffusivity \in {<<0, 1>>, <<1, 1>>}
  /\ mf_Hi \in [0 .. (nb_branches - 1) -> 1 .. MaxDof]
  /\ shift_H = 0
  /\ dpc = "mat_entry"
  /\ RelaxNotStarted
  /\ Save_it = 1
  /\ print_res = TRUE
  /\ H_START = 1
  /\ NoExport
  /\ BuildNotStarted
  /\ visco_v = 0

\* lines 430-431 and 530-531: AM_HT and FM_HT are resized and cleared, the
\* shifts are set to zero
AssemblyMatEntry ==
  /\ dpc = "mat_entry"
  /\ AM_HT' = [AM |-> resize_clear(AM_HT.AM, dofHT_H), FM |-> ClearedVector(dofHT_H)]
  /\ shift_H' = 0
  /\ ib' = 0
  /\ dpc' = "mat_branches"
  /\ UNCHANGED <<convex_size, Uvi, Theta, max_size, max_product, Diffusivity, mf_Hi>>
  /\ UNCHANGED <<tvars, pvars, rvars, evars>>
  /\ UNCHANGED <<Max_it, compliant, thick, alfa, UM, U_old, U_new, UM_HT, H_old,
                 H_new, iteration, RK, resSol, resCM, resH, p_int, p_ext, Rv,
                 CSarea, CSper, r_und, resistance_rvar, Mbar, MU, AM, Bvv, TFR,
                 cond, msg, ret, spc>>

\* lines 532-593: one pass of the loop over the branches
AssemblyMatBranch ==
  /\ dpc = "mat_branches"
  /\ ib < nb_branches
  /\ shift_H' = ShiftAfter(shift_H, ib)
  /\ AM_HT' = [AM_HT EXCEPT !.AM = BlockAdded(@, ib, ShiftAfter(shift_H, ib))]
  /\ ib' = ib + 1
  /\ UNCHANGED <<convex_size, Uvi, Theta, max_size, max_product, Diffusivity, mf_Hi,
                 dpc>>
  /\ UNCHANGED <<tvars, pvars, rvars, evars>>
  /\ UNCHANGED <<Max_it, compliant, thick, alfa, UM, U_old, U_new, UM_HT, H_old,
                 H_new, iteration, RK, resSol, resCM, resH, p_int, p_ext, Rv,
                 CSarea, CSper, r_und, resistance_rvar, Mbar, MU, AM, Bvv, TFR,
                 cond, msg, ret, spc>>

\* lines 596-606 and assembly_rhs: the terms that follow the loop
AssemblyMatEnd ==
  /\ dpc = "mat_branches"
  /\ ib >= nb_branches
  /\ AM_HT' = TermsAdded(AM_HT)
  /\ dpc' = "assembled"
  /\ UNCHANGED <<convex_size, Uvi, Theta, ib, max_size, max_product, Diffusivity,
                 mf_Hi, shift_H>>
  /\ UNCHANGED <<tvars, pvars, rvars, evars>>
  /\ UNCHANGED <<Max_it, compliant, thick, alfa, UM, U_old, U_new, UM_HT, H_old,
                 H_new, iteration, RK, resSol, resCM, resH, p_int, p_ext, Rv,
                 CSarea, CSper, r_und, resistance_rvar, Mbar, MU, AM, Bvv, TFR,
                 cond, msg, ret, spc>>

\* line 1202: the next outer iteration calls assembly() again, here with the
\* flow, the hematocrit and the parameters of the call before
AssemblyAgain ==
  /\ dpc = "assembled"
  /\ iteration < Max_it
  /\ iteration' = iteration + 1
  /\ dpc' = "mat_entry"
  /\ UNCHANGED <<convex_size, Uvi, Theta, ib, max_size, max_product, Diffusivity,
                 mf_Hi, shift_H>>
  /\ UNCHANGED <<tvars, pvars, rvars, evars>>
  /\ UNCHANGED <<Max_it, compliant, thick, alfa, UM, U_old, U_new, UM_HT, H_old,
                 H_new, RK, resSol, resCM, resH, p_int, p_ext, Rv, CSarea, CSper,
                 r_und, resistance_rvar, Mbar, MU, AM, Bvv, TFR, AM_HT, cond, msg,
                 ret, spc>>

NextAssembly ==
  \/ AssemblyMatEntry
  \/ AssemblyMatBranch
  \/ AssemblyMatEnd
  \/ AssemblyAgain

SpecAssembly == InitAssembly /\ [][NextAssembly]_vars

\* ---------------------------------------------------------------------
\* Properties of solve_fixpoint
\* ---------------------------------------------------------------------

\* the statements of one outer iteration
InIteration ==
  spc \in {"geometry", "flow_assemble", "flow_solve", "ht_assemble",
           "ht_solve", "flowrate", "residual"}

\* at least one of the three tests holds for the residuals of the last
\* executed iteration
SomeTestHolds ==
  \/ resSol[1] * epsSol[2] > epsSol[1] * resSol[2]
  \/ (resCM[2] # 0 /\ Abs(resCM[1]) * epsCM[2] > epsCM[1] * Abs(resCM[2]))
  \/ IF resH[2] = 0 THEN resH[1] > 0 ELSE resH[1] * epsH[2] > epsH[1] * resH[2]

C1_Step ==
  spc = "loop" /\ iteration >= 1 =>
    /\ InIteration' <=> (iteration < Max_it /\ SomeTestHolds)
    /\ ~InIteration' => spc' = "exit"

\* C1: after every outer iteration another iteration is started if and only
\* if the counter is below Max_it and at least one of the tests
\* resSol > epsSol, |resCM| > epsCM, resH > epsH holds for the residuals
\* computed in that iteration; otherwise the loop is left
C1_ContinuationRule == [][C1_Step]_vars

C1_Witness ==
  /\ spc = "exit"
  /\ iteration >= 1
  /\ iteration < Max_it
  /\ ~SomeTestHolds

C2_Step ==
  /\ iteration' # iteration => spc = "residual" /\ iteration' = iteration + 1
  /\ spc = "residual" /\ spc' # spc =>
        /\ iteration' = iteration + 1
        /\ U_old' = U_new
        /\ H_old' = H_new
  /\ spc = "exit" /\ spc' = "done" => UM' = U_old /\ UM_HT' = H_old
  /\ spc = "loop" /\ iteration >= Max_it => spc' \in {"loop", "exit"}

\* C2: solve_fixpoint always returns; the counter starts at 0, grows by
\* exactly 1 per outer iteration and never passes Max_it; reaching Max_it
\* with the continuation flag still set leaves the loop normally, and on
\* return UM and UM_HT hold the iterates of the last executed iteration
C2_Terminates ==
  /\ <>(spc = "done")
  /\ [](spc = "entry" => iteration = 0)
  /\ [](iteration <= Max_it)
  /\ [][C2_Step]_vars
  /\ [](spc = "done" => ret /\ UM = U_old /\ UM_HT = H_old)

C2_Witness ==
  /\ spc = "done"
  /\ iteration = Max_it
  /\ iteration >= 2
  /\ RK
  /\ UM # ZeroFlow
  /\ UM_HT # 0

\* C3: when the loop is left because Max_it was reached with a residual
\* still above its tolerance, the value handed back tells the caller that
\* the run has not converged
C3_NonConvergenceFlagged ==
  spc = "done" /\ iteration >= 1 /\ iteration = Max_it /\ RK => ret = FALSE

\* the geometry that the compliance model gives for pressures taken from
\* the flow vector U
GeometryOf(U) == vessel_conductivity_vec(r_und, thick, U.Pv, U.Pt)

\* C4: in every outer iteration the pressures handed to the compliance
\* model are those of the previous flow iterate (U_old at the top of the
\* iteration, the initial flow solution in the first one), also after the
\* flow solve of the iteration has produced a new iterate
C4_LaggedPressures ==
  InIteration /\ spc # "geometry" =>
    /\ p_int = U_old.Pv
    /\ p_ext = U_old.Pt
    /\ compliant =>
          /\ Rv = GeometryOf(U_old).R
          /\ CSarea = GeometryOf(U_old).area
          /\ CSper = GeometryOf(U_old).per
          /\ resistance_rvar = GeometryOf(U_old).cond

C4_Witness ==
  /\ spc = "residual"
  /\ iteration >= 1
  /\ compliant
  /\ U_new.Pv # U_old.Pv
  /\ U_new.Pt # U_old.Pt
  /\ CSarea = GeometryOf(U_old).area
  /\ CSarea # GeometryOf(U_new).area

C5_Order ==
  /\ spc = "loop" => spc' \in {"loop", "geometry", "exit"}
  /\ spc = "geometry" => spc' \in {"geometry", "flow_assemble"}
  /\ spc = "flow_assemble" => spc' \in {"flow_assemble", "flow_solve"}
  /\ spc = "flow_solve" => spc' \in {"flow_solve", "ht_assemble"}
  /\ spc = "ht_assemble" => spc' \in {"ht_assemble", "ht_solve"}
  /\ spc = "ht_solve" => spc' \in {"ht_solve", "flowrate"}
  /\ spc = "flowrate" => spc' \in {"flowrate", "residual"}
  /\ spc = "residual" => spc' \in {"residual", "loop"}

\* the geometry written by the compliance model in the running iteration
GeometryNow == vessel_conductivity_vec(r_und, thick, p_int, p_ext)

C5_ReadsAfterWrites ==
  compliant =>
    /\ spc \in {"flow_solve", "ht_assemble", "ht_solve", "flowrate", "residual"} =>
          /\ AM.area = GeometryNow.area
          /\ AM.per = GeometryNow.per
          /\ AM.cond = GeometryNow.cond
          /\ MU = viscosity(MU, visco_v, H_old, GeometryNow.R)
    /\ spc \in {"ht_solve", "flowrate", "residual"} =>
          AM_HT.area = GeometryNow.area

\* C5: each outer iteration runs geometry update, viscosity and flow
\* assembly, flow solve, hematocrit assembly, hematocrit solve, residuals
\* and the continuation decision in this order, so the viscosity and both
\* assembled systems of an iteration use the radius, area and perimeter the
\* compliance model wrote in that same iteration
C5_PhaseOrder == [][C5_Order]_vars /\ []C5_ReadsAfterWrites

C5_Witness ==
  /\ spc = "residual"
  /\ iteration >= 1
  /\ compliant
  /\ H_old # 0
  /\ AM.area = GeometryNow.area
  /\ AM.area # CircleArea(RScale * Ru0)
  /\ AM_HT.area = AM.area

\* C12: no step of solve_fixpoint, of the assembly of the hematocrit system,
\* of iteration_solve or of vessel_conductivity_vec adds, removes or changes
\* a boundary node or a junction node
C12_RecordsImmutable == [][BCv_HT' = BCv_HT /\ Jv_HT' = Jv_HT]_vars

C12_Witness ==
  /\ spc = "done"
  /\ iteration >= 2
  /\ compliant
  /\ Len(BCv_HT) = 2
  /\ Len(Jv_HT) = 1
  /\ Jv_HT[1].value = R(0) + R(1)

\* the geometry arrays of the parameter store
Geometry == <<Rv, CSarea, CSper>>

C13_Step ==
  /\ Geometry' # Geometry => spc = "geometry" /\ compliant
  /\ Geometry' # Geometry =>
        Geometry' = <<GeometryOf(UM).R, GeometryOf(UM).area, GeometryOf(UM).per>>

\* C13: during the outer iteration the radius, area and perimeter of the
\* parameter store change only in the call of vessel_conductivity_vec, which
\* is made only with compliant vessels; without them the three arrays keep
\* the values they had on entry
C13_SoleWriter ==
  /\ [][C13_Step]_vars
  /\ [](~compliant =>
          Geometry = <<Circle(RScale * Ru0), CircleArea(RScale * Ru0),
                       CirclePer(RScale * Ru0)>>)

C13_Witness ==
  /\ spc = "done"
  /\ ~compliant
  /\ iteration >= 2
  /\ UM.Pt > UM.Pv
  /\ Rv = Circle(RScale * Ru0)
  /\ Rv # GeometryOf(UM).R

\* C14: when the condition estimate of a hematocrit solve, the initial one
\* or that of an iteration, reports a singular system, the solver does not
\* go on to the next statement with the returned vector
C14_SingularSurfaced == cond = "singular" => spc \notin {"loop", "flowrate"}

\* C15: no residual is the result of a division by zero: the hematocrit
\* residual is not divided by a zero norm of the previous iterate and the
\* mass-conservation residual is not divided by a zero total flow rate
C15_NoDivisionByZero == resH[2] # 0 /\ resCM[2] # 0

\* the equivalent pressure 12 deltap (1 - nu^2) / Ei / (hu/Ru)^3 of a
\* vessel of undeformed radius Ru and wall thickness hu
EquivalentPressure(Ru, hu, deltap) ==
  <<12 * deltap * (NuDen * NuDen - NuNum * NuNum) * Ru * Ru * Ru,
    Ei * NuDen * NuDen * hu * hu * hu>>

\* the vessel is a venule (hu/Ru < 0.1) whose equivalent pressure is at or
\* beyond the collapse limit, which is above the buckling threshold
CollapsedVenule(Ru, hu, deltap) ==
  /\ 10 * hu < Ru
  /\ EquivalentPressure(Ru, hu, deltap)[1]
        >= CollapseLimit * EquivalentPressure(Ru, hu, deltap)[2]

\* the compliance model has written the geometry for p_int and p_ext
GeometryWritten ==
  \/ InIteration /\ spc # "geometry" /\ compliant
  \/ spc \in {"vessel_called", "vessel_done"}

\* C16: for every pressure difference that gives p_adim >= 5 in the buckled
\* regime, the conductance written is the one of p_adim = 5 for the same
\* undeformed radius and the area written to the parameters is the area of
\* p_adim = 5
C16_ClampedAtLimit ==
  (GeometryWritten /\ CollapsedVenule(r_und, thick, p_ext - p_int)) =>
    /\ resistance_rvar =
          BuckledCond(BuckledArea(RScale * r_und, <<CollapseLimit, 1>>),
                      Circle(RScale * r_und), <<CollapseLimit, 1>>)
    /\ CSarea = BuckledArea(RScale * r_und, <<CollapseLimit, 1>>)

\* a call with an equivalent pressure of more than twice the limit
C16_Witness ==
  /\ spc = "vessel_called"
  /\ CollapsedVenule(r_und, thick, p_ext - p_int)
  /\ EquivalentPressure(r_und, thick, p_ext - p_int)[1]
        > 2 * CollapseLimit * EquivalentPressure(r_und, thick, p_ext - p_int)[2]
  /\ CSarea = BuckledArea(RScale * r_und, <<CollapseLimit, 1>>)

\* what the code computes from the undeformed radius, the wall thickness
\* and the pressures alone
Written == <<Rv, CSarea, CSper, resistance_rvar>>

FromInputs ==
  LET g == vessel_conductivity_vec(Ru0, thick, p_int, p_ext)
  IN <<g.R, g.area, g.per, g.cond>>

\* C17: a second call of vessel_conductivity_vec with the same pressures
\* leaves the radius, area, perimeter and conductance of the first call,
\* and the result of a call does not depend on the geometry left by earlier
\* calls
C17_Idempotent ==
  /\ [][spc = "vessel_called" => Written' = Written]_vars
  /\ [](spc \in {"vessel_called", "vessel_done"} => Written = FromInputs)

\* after two calls on parameters that held the geometry of another pressure
\* pair in the arteriole regime
C17_Witness ==
  /\ spc = "vessel_done"
  /\ thick = 2
  /\ p_int # p_ext
  /\ Rv # Circle(RScale * Ru0)
  /\ Written = FromInputs

\* the largest element size among the convexes of branch b itself
BranchSize(b) == Max({convex_size[k] : k \in {c \in Convexes : is_in(b, c)}})

\* the largest absolute velocity among the dofs of branch b
BranchSpeed(b) == Max({Abs(Uvi[b][k]) : k \in DOMAIN Uvi[b]})

\* C18: the artificial diffusivity is Theta/2 times the largest, over the
\* branches, of the product of the largest absolute velocity of the branch
\* and the largest element size of that same branch
C18_DiffusivityPerBranch ==
  dpc = "done" =>
    Diffusivity =
      Fraction(Theta * Max({BranchSpeed(b) * BranchSize(b) :
                              b \in 0 .. (nb_branches - 1)}), 2)

\* C19: under selector 0 and under selector 1, every element whose
\* interpolated hematocrit is exactly zero gets the plasma viscosity, and no
\* correlation is evaluated for it
C19_PlasmaAtZeroHematocrit ==
  (spc = "visco_done" /\ visco_v \in {0, 1}) =>
    \A muu \in Convexes :
      H_const[muu] = 0 =>
        (MU[muu] = mu_plasma /\ MU[muu].kind \notin {"vivo", "vitro"})

C19_Witness ==
  /\ spc = "visco_done"
  /\ visco_v = 1
  /\ \E muu \in Convexes : H_const[muu] = 0 /\ MU[muu] = mu_plasma
  /\ \E muu \in Convexes : H_const[muu] # 0 /\ MU[muu].kind = "vitro"

\* C20: when the thickness file cannot be opened, build writes a warning,
\* sets the thickness of every vessel data dof to 0.2 times the radius of
\* that dof, and goes on to build the remaining parameters
C20_Step ==
  (spc = "build_thick" /\ ~THICKFILE.open) =>
    /\ cerr' = cerr + 1
    /\ spc' = "build_sections"
    /\ \A i \in 0 .. (dof_datav - 1) : 10 * thick_'[i][1] = 2 * R_[i] * thick_'[i][2]

C20_ThicknessFallback ==
  /\ [][C20_Step]_vars
  /\ [](~THICKFILE.open /\ spc \in {"build_sections", "build_done"} =>
          /\ cerr > 0
          /\ DOMAIN thick_ = 0 .. (dof_datav - 1)
          /\ \A i \in DOMAIN thick_ : 10 * thick_[i][1] = 2 * R_[i] * thick_[i][2])
  /\ [](~THICKFILE.open /\ spc = "build_done" =>
          \A i \in 0 .. (dof_datav - 1) : CSarea_[i] = CircleArea(R_[i]))

C20_Witness ==
  /\ spc = "build_done"
  /\ ~THICKFILE.open
  /\ \E i, j \in DOMAIN thick_ : thick_[i] # thick_[j]
  /\ DOMAIN CSarea_ = DOMAIN thick_

\* C21: iteration_solve returns alfa*x + (1 - alfa)*U_O, which is x itself
\* for alfa = 1, and the caller's H_old is the same after the call as before
C21_Step ==
  spc = "relax_call" =>
    /\ H_new'[1] * alfa[2] * x_sol[2] * H_old[2]
         = H_new'[2] * (alfa[1] * x_sol[1] * H_old[2]
                          + (alfa[2] - alfa[1]) * H_old[1] * x_sol[2])
    /\ (alfa = <<1, 1>> => H_new' = x_sol)
    /\ H_old' = H_old

C21_UnderRelaxation == [][C21_Step]_vars

C21_Witness ==
  /\ spc = "relax_done"
  /\ alfa # <<1, 1>>
  /\ H_new # x_sol
  /\ H_new # H_old
  /\ H_old # <<0, 1>>

\* the exchange flow of the iterate U with the exchange matrices as they
\* are assembled: the sum of Bvt*Pt + Bvv*Pv and of the oncotic term
ExchangeFlow(U) == asm_exchange_mat * (U.Pt + U.Pv - picoef)

\* C22: the total flow rate that divides the mass-conservation residual is
\* the exchange flow of the new iterate, with the exchange matrices holding
\* the entries assembled in that iteration
C22_FlowRateFromExchange ==
  spc = "residual" => TFR = ExchangeFlow(U_new)

\* C23: once the flow system of an iteration is assembled, every operator
\* in it that depends on the radius, the exchange auxiliary matrix included,
\* comes from the geometry left by that iteration's geometry update
C23_OperatorsFromGeometry ==
  spc = "flow_solve" =>
    /\ AM.area = CSarea
    /\ AM.per = CSper
    /\ AM.cond = FlowConductance
    /\ AM.Mbar = Rv

\* C24: in every iteration the hematocrit system is assembled after the
\* flow solve, and from the vessel velocity of that iteration's new flow
\* iterate, which UM holds when assembly() reads it
C24_Order == spc' = "ht_assemble" => spc = "flow_solve"

C24_HematocritFromNewFlow ==
  /\ [][C24_Order]_vars
  /\ [](spc = "ht_assemble" => UM = U_new)
  /\ [](spc = "ht_solve" => AM_HT.Uv = U_new.Uv)

C24_Witness ==
  /\ spc = "ht_solve"
  /\ iteration >= 1
  /\ U_new.Uv # U_old.Uv
  /\ AM_HT.Uv = U_new.Uv

\* the positions of the junction records of point i
JunctionRecordsAt(i) == {k \in DOMAIN Jv_HT : Jv_HT[k].idx = i}

\* two of the convexes at point i are in the same branch
SharedBranchAt(i) ==
  \E c1, c2 \in convex_to_point_set(i) : c1 # c2 /\ reg[c1] = reg[c2]

\* C25: no two junction records have the same vertex, and when the scan
\* is over a vertex with three or more convexes has exactly one record
C25_OneJunctionRecord ==
  /\ \A a, b \in DOMAIN Jv_HT : a # b => Jv_HT[a].idx # Jv_HT[b].idx
  /\ tpc = "done" =>
       \A i \in Points : Degree(i) >= 3 => Cardinality(JunctionRecordsAt(i)) = 1

C25_Witness ==
  /\ tpc = "done"
  /\ \E i \in Points :
       /\ Degree(i) >= 3
       /\ SharedBranchAt(i)
       /\ Cardinality(JunctionRecordsAt(i)) = 1
       /\ Len(Jv_HT[CHOOSE k \in JunctionRecordsAt(i) : TRUE].branches) >= 3

\* C26: when the scan ends without a fatal error every junction record has
\* two branch entries at a vertex of degree 2, and one entry for each convex
\* at a vertex of degree 3 or more
C26_BranchListLength ==
  tpc = "done" =>
    \A k \in DOMAIN Jv_HT :
      LET d == Degree(Jv_HT[k].idx)
          n == Len(Jv_HT[k].branches)
      IN /\ n >= 2
         /\ d = 2 => n = 2
         /\ d >= 3 => n = d

C26_Witness ==
  /\ tpc = "done"
  /\ \E k \in DOMAIN Jv_HT : Degree(Jv_HT[k].idx) = 2 /\ Len(Jv_HT[k].branches) = 2
  /\ \E k \in DOMAIN Jv_HT : Degree(Jv_HT[k].idx) = 3 /\ Len(Jv_HT[k].branches) = 3

\* the point of convex cv that the scan visits next
VisitedPoint == IF tpc = "i0" THEN i0 ELSE i1

\* C27: the visit of a vertex of degree 2 whose two convexes are in the
\* same branch leaves the records, the regions of the mesh and the region
\* counter as they are
C27_Step ==
  (/\ tpc \in {"i0", "i1"}
   /\ Degree(VisitedPoint) = 2
   /\ SharedBranchAt(VisitedPoint)) =>
    UNCHANGED <<BCv_HT, Jv_HT, regions, fer, junctions, nb_junctions,
                extrema, nb_extrema>>

C27_InteriorPointNoOp == [][C27_Step]_vars

C27_Witness ==
  /\ tpc = "i0"
  /\ cv >= 1
  /\ Degree(ind_points_of_convex(cv - 1, 1)) = 2
  /\ SharedBranchAt(ind_points_of_convex(cv - 1, 1))
  /\ Len(Jv_HT) >= 1
  /\ fer > nb_branches

\* what a law gives, in the order of Written
LawWritten(g) == <<g.R, g.area, g.per, g.cond>>

\* threshold = 3*E*ratio^3/(12*(1 - nu^2)) with ratio = thickness / radius
BucklingThreshold ==
  Fraction(3 * E_vec_ * thick * thick * thick * NuDen * NuDen,
           12 * (NuDen * NuDen - NuNum * NuNum) * r_und * r_und * r_und)

\* C28: the law applied is the arteriole law when thickness/radius >= 0.1,
\* else the circular venule law when p_ext - p_int is at most the threshold,
\* else the buckled law; the two boundary cases are on the first side
C28_RegimeSelection ==
  spc = "regime_done" =>
    Written =
      IF 10 * thick >= r_und
      THEN LawWritten(ArterioleLaw(E_vec_, r_und, thick, p_int, p_ext))
      ELSE IF (p_ext - p_int) * BucklingThreshold[2] <= BucklingThreshold[1]
           THEN LawWritten(CircularVenuleLaw(E_vec_, r_und, thick, p_int, p_ext))
           ELSE LawWritten(BuckledVenuleLaw(E_vec_, r_und, thick, p_int, p_ext))

\* a venule whose pressure difference is exactly the threshold
C28_Witness ==
  /\ spc = "regime_done"
  /\ 10 * thick < r_und
  /\ (p_ext - p_int) * BucklingThreshold[2] = BucklingThreshold[1]
  /\ p_int # 0
  /\ Rv.law = "circle"
  /\ Rv.r # RScale * r_und

\* C29: in the buckled regime the fourth power in the denominator of the
\* conductance is that of the hydraulic radius area/perimeter, which is the
\* radius written to the parameters
C29_HydraulicRadiusInConductance ==
  (/\ spc = "vessel_called"
   /\ Regime(Ei, r_und, thick, p_ext - p_int) = "buckled") =>
    /\ resistance_rvar.law = "buckled"
    /\ Rv.law = "area/per"
    /\ resistance_rvar.r4 = Rv

\* C30: once the checkpoint test of an iteration has run, that iteration
\* has been exported exactly when its index is a multiple of Save_it,
\* whatever the other configuration flags are
C30_CheckpointEveryInterval ==
  spc = "residual" => (iteration \in exports <=> iteration % Save_it = 0)

(***************************************************************************)
(* C31: before the first outer iteration the hematocrit system is          *)
(* assembled once from the seed H_START and the flow solution present on   *)
(* entry, one direct solve replaces UM_HT, and the previous iterates of    *)
(* iteration 0 are U_old = the flow solution on entry and H_old = the      *)
(* result of that solve.                                                   *)
(***************************************************************************)
\* the statements in front of the loop
C31_Step ==
  spc = "entry" /\ spc' = "loop" =>
    /\ AM_HT' = [Uv |-> UM.Uv, area |-> CSarea, H |-> H_START]
    /\ UM' = UM
    /\ U_old' = UM
    /\ H_old' = UM_HT'
    /\ iteration' = 0

\* the part of iteration 0 in front of the flow solve
BeforeFirstFlowSolve ==
  /\ iteration = 0
  /\ spc \in {"loop", "geometry", "flow_assemble", "flow_solve"}

\* C31: the initial guess is assembled from H_START and the flow solution on
\* entry, and iteration 0 takes U_old = that flow solution and H_old = the
\* solved initial guess
C31_InitialGuess ==
  /\ [][C31_Step]_vars
  /\ [](BeforeFirstFlowSolve =>
          /\ U_old = UM
          /\ H_old = UM_HT
          /\ AM_HT.H = H_START
          /\ AM_HT.Uv = U_old.Uv)

\* iteration 0 is about to solve the flow, from a start value and a flow
\* solution on entry that are not zero, and a solved guess unlike the seed
C31_Witness ==
  /\ spc = "flow_solve"
  /\ iteration = 0
  /\ H_START = 1
  /\ AM_HT.H = 1
  /\ U_old.Uv = 1
  /\ H_old = 0

(***************************************************************************)
(* C32: the block of AM_HT written for branch i is the index range that    *)
(* starts at the sum of the hematocrit dof counts of the branches before   *)
(* it and has the dof count of branch i; the ranges are pairwise disjoint, *)
(* contiguous, start at 0 and follow the branch order, and the advection   *)
(* and diffusion matrices of a branch are added inside its own diagonal    *)
(* block only.                                                             *)
(***************************************************************************)
\* the terms of the local matrix m of branch i in the entry e
TermsOf(m, i, e) ==
  {k \in 1 .. Len(AM_HT.AM[e]) : AM_HT.AM[e][k].m = m /\ AM_HT.AM[e][k].i = i}

\* the entries that hold an advection or a diffusion term of branch i
WrittenBy(i) ==
  {e \in DOMAIN AM_HT.AM : TermsOf("Bhi", i, e) # {} \/ TermsOf("Dhi", i, e) # {}}

\* the rows and the columns of those entries
RangeOf(i) == {e[1] : e \in WrittenBy(i)} \cup {e[2] : e \in WrittenBy(i)}

\* the index range the claim gives to branch i
OwnRange(i) == SumDofs(i) .. (SumDofs(i) + mf_Hi[i] - 1)

\* C32: each branch writes its advection and diffusion terms once, in the
\* diagonal block over its own range, and the ranges of the branches are
\* disjoint, contiguous from 0 and in branch order
C32_BranchBlocks ==
  dpc \in {"mat_branches", "assembled"} =>
    /\ \A i \in 0 .. (nb_branches - 1) :
          IF i < ib
          THEN /\ WrittenBy(i) = OwnRange(i) \X OwnRange(i)
               /\ \A e \in WrittenBy(i) :
                     /\ Cardinality(TermsOf("Bhi", i, e)) = 1
                     /\ Cardinality(TermsOf("Dhi", i, e)) = 1
          ELSE WrittenBy(i) = {}
    /\ ib > 0 => Min(RangeOf(0)) = 0
    /\ \A i \in 0 .. (ib - 1), j \in 0 .. (ib - 1) :
          /\ i # j => RangeOf(i) \cap RangeOf(j) = {}
          /\ j = i + 1 => Min(RangeOf(j)) = Max(RangeOf(i)) + 1

\* the system of two branches with different dof counts has been assembled
C32_Witness ==
  /\ dpc = "assembled"
  /\ mf_Hi[0] = 2
  /\ mf_Hi[1] = 1
  /\ RangeOf(1) = {2}

(***************************************************************************)
(* C36: problemHT::assembly does not depend on what AM_HT and FM_HT held   *)
(* before: the system it leaves is the one built from an empty matrix and  *)
(* an empty right-hand side, in the first call and in every later one.     *)
(***************************************************************************)
\* the blocks of the first k branches added to an empty matrix
RECURSIVE BlocksFromEmpty(_)
BlocksFromEmpty(k) ==
  IF k = 0 THEN ClearedMatrix(dofHT_H)
  ELSE BlockAdded(BlocksFromEmpty(k - 1), k - 1, SumDofs(k - 1))

\* the system of the flow iterate, the hematocrit iterate and the
\* parameters, built from nothing
SystemFromEmpty ==
  TermsAdded([AM |-> BlocksFromEmpty(nb_branches), FM |-> ClearedVector(dofHT_H)])

\* C36: whatever AM_HT and FM_HT held on entry, assembly() leaves the system
\* of its inputs alone, so that nothing accumulates from call to call
C36_AssemblyFromScratch ==
  dpc = "assembled" => AM_HT = SystemFromEmpty

\* a second call of assembly() has returned, with a flow that is not zero
C36_Witness ==
  /\ dpc = "assembled"
  /\ iteration >= 1
  /\ UM.Uv = 1
  /\ UM_HT = 1

(***************************************************************************)
(* C33: in the buckled regime the radius written to the parameters is the  *)
(* hydraulic radius area/per of the area of the equivalent pressure        *)
(* p_adim itself, while the area written is the one of the limit           *)
(* configuration: the radius is the hydraulic radius of the cross-section  *)
(* written with it when p_adim <= 5, and of a smaller one beyond.          *)
(***************************************************************************)
\* the call has run the buckled branch
BuckledCall ==
  /\ spc = "vessel_called"
  /\ Regime(Ei, r_und, thick, p_ext - p_int) = "buckled"

\* p_adim of the call, as a reduced fraction
p_adim_call ==
  Fraction(EquivalentPressure(r_und, thick, p_ext - p_int)[1],
           EquivalentPressure(r_und, thick, p_ext - p_int)[2])

StartsInBranchZero(v) ==
  {e \in convex_to_point_set(v) : ind_points_of_convex(e, 0) = v /\ reg[e] = 0}

\* C34: a scan that has finished has left no junction record at a vertex
\* where an element of branch 0 starts, whose entry would be -0
C34_NoMinusZero ==
  tpc = "done" =>
     \A k \in 1 .. Len(Jv_HT) : StartsInBranchZero(Jv_HT[k].idx) = {}

(***************************************************************************)
(* C35: after param3d1d::build the cross-section area, the cross-section   *)
(* perimeter and the wall thickness hold one entry per vessel data dof,    *)
(* with area = pi*R^2 and perimeter = 2*pi*R at every dof, with an         *)
(* imported radius and with a constant one.                                *)
(***************************************************************************)
\* C35: when build has returned, CSarea_, CSper_ and thick_ have the length
\* of R_, and the area and the perimeter of every dof are those of R_
C35_SectionsOfEveryDof ==
  spc = "build_done" =>
    /\ DOMAIN R_ = 0 .. (dof_datav - 1)
    /\ DOMAIN CSarea_ = DOMAIN R_
    /\ DOMAIN CSper_ = DOMAIN R_
    /\ DOMAIN thick_ = DOMAIN R_
    /\ \A i \in DOMAIN R_ :
          /\ CSarea_[i] = CircleArea(R_[i])
          /\ CSper_[i] = CirclePer(R_[i])

(***************************************************************************)
(* C37: with Max_it >= 1 solve_fixpoint runs at least one complete outer   *)
(* iteration whatever the initial guess is, because the continuation flag  *)
(* starts true and the residuals are evaluated at the end of iteration 0;  *)
(* with Max_it = 0 no iteration runs and UM is left as on entry.           *)
(***************************************************************************)
\* the positions outside the loop body
OutsideLoop == {"entry", "loop", "exit", "done"}

C37_Step ==
  /\ (spc = "loop" /\ iteration = 0 /\ Max_it >= 1) => spc' = "geometry"
  /\ iteration' # iteration => (spc = "residual" /\ iteration' = iteration + 1)
  /\ Max_it = 0 => UM' = UM

\* C37: the first test of the loop passes when Max_it >= 1, the counter is
\* advanced only at the end of a complete iteration and is at least 1 when
\* the loop is left; with Max_it = 0 the body is never entered and UM is
\* never changed
C37_AtLeastOneIteration ==
  /\ [][C37_Step]_vars
  /\ [](spc \in {"exit", "done"} =>
          IF Max_it >= 1 THEN iteration >= 1 ELSE iteration = 0)
  /\ [](Max_it = 0 => spc \in OutsideLoop)

\* solve_fixpoint has returned after exactly one iteration, the residuals
\* of which were below the tolerances, from a flow on entry that is not zero
C37_Witness ==
  /\ spc = "done"
  /\ Max_it >= 1
  /\ iteration = 1
  /\ ~RK
  /\ UM.Uv = 1

(***************************************************************************)
(* C38: the viscosity of every element that enters the flow conductance    *)
(* is the plasma viscosity or a value of one of the two correlations; a    *)
(* selector other than 0 or 1 stops the solver instead of letting the      *)
(* iteration go on with the cleared viscosity.                             *)
(***************************************************************************)
\* C38: once the viscosity loop has been left and the iteration goes on,
\* no element of a branch holds the cleared viscosity
C38_ViscosityDefined ==
  spc = "visco_done" =>
    \A muu \in Convexes :
       (\E i \in 0 .. (nb_branches - 1) : is_in(i, muu)) =>
          MU[muu].kind \in {"plasma", "vivo", "vitro"}

====
